---- MODULE Spec2Model ----
(***************************************************************************)
(* The event-stream reconciliation pipeline of the chat client:            *)
(* src/src/hooks/useCodexEvents.ts (listeners, deduplication, routing and   *)
(* the per-kind reducer) over src/src/stores/ConversationStore.ts (the      *)
(* transcript store).  utils/streamController and utils/genUniqueId are     *)
(* not part of the sources at hand; they are modelled from spec.md 4.3 and  *)
(* 3 ("freshly generated for synthetic entries").                           *)
(*                                                                         *)
(* Text is a sequence of one-character strings, so that concatenation,      *)
(* trim() and join('\n') are computed and not assumed.  Timestamps          *)
(* (Date.now()) are left out: no handler reads them back.                   *)
(*                                                                         *)
(* src/src/stores/AgentSteeringStore.ts (steering specs, their activations  *)
(* and the reminders they make) is modelled beside it, with its clock.      *)
(***************************************************************************)
EXTENDS Integers, Sequences, FiniteSets, TLC

VARIABLES
  conversations,              \* ConversationStore.conversations, by conversation id
  conversationsAtMount,       \* the `conversations` array the listeners' closure captured
  sessionId,                  \* the hook's sessionId prop
  hasStopCallback,            \* whether the onStopStreaming prop was passed
  streamController,           \* streamController.current
  currentStreamingMessageId,  \* currentStreamingMessageId.current
  currentCommandMessageId,    \* currentCommandMessageId.current
  currentCommandInfo,         \* currentCommandInfo.current
  processedEventIds,          \* processedEventIds.current, in insertion order
  uid,                        \* ids handed out by generateUniqueId so far
  stopSignals,                \* calls of onStopStreaming so far
  lastTurnDiffRef,            \* lastTurnDiffRef.current
  turnDiffs,                  \* EphemeralStore: the turn-diff slot of each session
  turnDiffPublishes,          \* calls of setTurnDiff so far
  lookups,                    \* find_rollout_path_for_session invocations in flight
  mounted,                    \* the effect's listeners are registered
  steering,                   \* AgentSteeringStore: specs, reminders, activations
  last                        \* the latest listener call: event, channel, state on entry

vars == <<conversations, conversationsAtMount, sessionId, hasStopCallback,
          streamController, currentStreamingMessageId, currentCommandMessageId,
          currentCommandInfo, processedEventIds, uid, stopSignals, lastTurnDiffRef,
          turnDiffs, turnDiffPublishes, lookups, mounted, steering, last>>

\* everything but the steering store and the record of the latest call
hookState == <<conversations, conversationsAtMount, sessionId, hasStopCallback,
               streamController, currentStreamingMessageId, currentCommandMessageId,
               currentCommandInfo, processedEventIds, uid, stopSignals, lastTurnDiffRef,
               turnDiffs, turnDiffPublishes, lookups, mounted>>

\* what a listener call can change besides the deduplication set
reducerState == <<conversations, streamController, currentStreamingMessageId,
                  currentCommandMessageId, currentCommandInfo, uid, stopSignals,
                  lastTurnDiffRef, turnDiffs, turnDiffPublishes, lookups>>

\* what only the turn_diff and session_configured cases touch
sessionState == <<lastTurnDiffRef, turnDiffs, turnDiffPublishes, lookups>>

-----------------------------------------------------------------------------
\* Bounds of the model

\* distinct event keys one run of the reducer scenarios may insert
MaxEvents == 3

\* distinct event keys one run of the delivery scenario may insert
MaxDeliveries == 2

\* fresh event ids of the flood scenario (it has to pass DedupLimit)
MaxFlood == 1002

\* Program constants

\* processedEventIds.current.size > 1000
DedupLimit == 1000

\* ids.slice(-500)
DedupKeep == 500

\* content.length > 50 ? content.substring(0, 50) + "..."
TitleMax == 50

-----------------------------------------------------------------------------
\* Values

NoId == [tag |-> "none", n |-> 0]

\* Event.id as the backend assigns it
EventId(n) == [tag |-> "evt", n |-> n]

EventIds == {EventId(1), EventId(2)}

\* `${sessionId}-<tag>-${generateUniqueId()}`
GeneratedId(tag, n) == [tag |-> tag, n |-> n]

NoSession == ""
HookSession == "codex-event-s1"
BareSession == "s1"
OtherSession == "s2"
ConversationIds == {HookSession, BareSession, "codex-event-s2"}

\* an unset optional field (undefined, null)
Unset == <<"unset">>

NL == "\n"
Space == " "
Fence == "fence"
GlyphRun == "run-glyph"
GlyphOk == "ok-glyph"
GlyphFail == "fail-glyph"
GlyphStop == "stop-glyph"
GlyphExec == "exec-glyph"
GlyphPatch == "patch-glyph"
GlyphApply == "apply-glyph"
GlyphTool == "tool-glyph"
GlyphSearch == "search-glyph"

NoApproval == [id |-> NoId, type |-> "none"]

\* message.plan absent
NoPlan == [explanation |-> Unset, plan |-> <<>>]

NoCommandInfo == [set |-> FALSE, command |-> <<>>, cwd |-> <<>>]

\* no stream has been closed by an agent_message or a task_started yet
NoPrior == [id |-> NoId, content |-> <<>>, by |-> "none", text |-> FALSE]

NoLast ==
  [channel |-> "none", dup |-> FALSE, routed |-> FALSE,
   event |-> [id |-> NoId, session_id |-> NoSession, msg |-> [type |-> "none"]],
   len |-> 0, streamId |-> NoId, commandId |-> NoId, loading |-> FALSE,
   stops |-> 0, content |-> <<>>, seen |-> 0, threw |-> FALSE, diff |-> Unset,
   publishes |-> 0, ctrl |-> [state |-> "Idle"], uid |-> 0, title |-> <<>>,
   renamed |-> FALSE, teardowns |-> 0, calls |-> 0, prevDiff |-> Unset,
   prior |-> NoPrior,
   seenDiffs |-> [c \in ConversationIds |-> Unset]]

-----------------------------------------------------------------------------
\* Text helpers: String.prototype.trim, Array.prototype.join

IsBlank(c) == c \in {Space, NL}

RECURSIVE TrimStart(_)
TrimStart(s) ==
  IF s = <<>> THEN <<>>
  ELSE IF IsBlank(Head(s)) THEN TrimStart(Tail(s)) ELSE s

RECURSIVE TrimEnd(_)
TrimEnd(s) ==
  IF s = <<>> THEN <<>>
  ELSE IF IsBlank(s[Len(s)]) THEN TrimEnd(SubSeq(s, 1, Len(s) - 1)) ELSE s

Trim(s) == TrimEnd(TrimStart(s))

RECURSIVE Join(_, _)
Join(parts, sep) ==
  IF parts = <<>> THEN <<>>
  ELSE IF Len(parts) = 1 THEN parts[1]
  ELSE parts[1] \o sep \o Join(Tail(parts), sep)

\* template-literal rendering of a number
NumText(n) == <<ToString(n)>>

-----------------------------------------------------------------------------
\* ConversationStore.ts

NoConversation ==
  [exists |-> FALSE, title |-> <<>>, messages |-> <<>>, isLoading |-> FALSE,
   codexSessionId |-> Unset, resumePath |-> Unset]

\* createConversation(title, sessionId): an existing conversation is kept as it is
createConversation(convs, title, id) ==
  IF convs[id].exists THEN convs
  ELSE [convs EXCEPT ![id] =
          [exists |-> TRUE, title |-> title, messages |-> <<>>, isLoading |-> FALSE,
           codexSessionId |-> Unset, resumePath |-> Unset]]

\* setSessionLoading: maps over the conversations, so a missing one is a no-op
setSessionLoading(convs, id, loading) ==
  IF convs[id].exists THEN [convs EXCEPT ![id].isLoading = loading] ELSE convs

RECURSIVE FirstUser(_)
FirstUser(messages) ==
  IF messages = <<>> THEN <<>>
  ELSE IF Head(messages).role = "user" THEN <<Head(messages)>>
  ELSE FirstUser(Tail(messages))

\* generateTitle(messages)
generateTitle(messages) ==
  LET found == FirstUser(messages) IN
  IF found # <<>>
  THEN LET content == Trim(found[1].content) IN
       IF Len(content) > TitleMax THEN SubSeq(content, 1, TitleMax) \o <<".", ".", ".">>
       ELSE content
  ELSE <<"New Conversation">>

\* setResumeMeta(conversationId, meta): both fields are written from meta, so a
\* field meta does not carry becomes undefined
setResumeMeta(convs, id, meta) ==
  IF convs[id].exists
  THEN [convs EXCEPT
          ![id].codexSessionId =
             IF "codexSessionId" \in DOMAIN meta THEN meta.codexSessionId ELSE Unset,
          ![id].resumePath =
             IF "resumePath" \in DOMAIN meta THEN meta.resumePath ELSE Unset]
  ELSE convs

\* updateConversationTitle(id, title)
updateConversationTitle(convs, id, title) ==
  IF convs[id].exists THEN [convs EXCEPT ![id].title = title] ELSE convs

\* addMessage that puts the new entry in front: [message, ...conv.messages]
addMessagePrepends(convs, id, message) ==
  IF convs[id].exists
  THEN LET updatedMessages == <<message>> \o convs[id].messages
           newTitle == IF convs[id].title = <<"New Conversation">>
                       THEN generateTitle(updatedMessages)
                       ELSE convs[id].title
       IN [convs EXCEPT ![id].messages = updatedMessages, ![id].title = newTitle]
  ELSE convs

\* addMessage(conversationId, message)
addMessage(convs, id, message) ==
  IF convs[id].exists
  THEN LET updatedMessages == Append(convs[id].messages, message)
           newTitle == IF convs[id].title = <<"New Conversation">>
                       THEN generateTitle(updatedMessages)
                       ELSE convs[id].title
       IN [convs EXCEPT ![id].messages = updatedMessages, ![id].title = newTitle]
  ELSE convs

\* { ...msg, ...updates }
Merge(msg, updates) ==
  [f \in DOMAIN msg |-> IF f \in DOMAIN updates THEN updates[f] ELSE msg[f]]

\* updateMessage(conversationId, messageId, updates): every entry with that id
updateMessage(convs, id, messageId, updates) ==
  IF convs[id].exists
  THEN [convs EXCEPT ![id].messages =
          [i \in DOMAIN @ |-> IF @[i].id = messageId THEN Merge(@[i], updates) ELSE @[i]]]
  ELSE convs

\* index of the first entry with this id, 0 when there is none
\* (Array.prototype.findIndex, counted from 1)
FindIndex(messages, messageId) ==
  LET hits == {i \in DOMAIN messages : messages[i].id = messageId} IN
  IF hits = {} THEN 0 ELSE CHOOSE i \in hits : \A j \in hits : i <= j

\* truncation that keeps the entry it was asked to cut from
truncateMessagesFromKeepsEntry(convs, id, fromMessageId) ==
  IF convs[id].exists /\ FindIndex(convs[id].messages, fromMessageId) > 0
  THEN [convs EXCEPT ![id].messages =
          SubSeq(@, 1, FindIndex(convs[id].messages, fromMessageId))]
  ELSE convs

\* truncateMessagesFrom(conversationId, fromMessageId): slice(0, messageIndex)
truncateMessagesFrom(convs, id, fromMessageId) ==
  IF convs[id].exists /\ FindIndex(convs[id].messages, fromMessageId) > 0
  THEN [convs EXCEPT ![id].messages =
          SubSeq(@, 1, FindIndex(convs[id].messages, fromMessageId) - 1)]
  ELSE convs

\* deleteConversation(id): the conversation is filtered out of the array
deleteConversation(convs, id) == [convs EXCEPT ![id] = NoConversation]

\* selectHistoryConversation(conversation): a conversation read from a rollout
\* file replaces the one in the store with its id, or is added; filePath, when
\* it has one, becomes resumePath
selectHistoryConversation(convs, conversation) ==
  [convs EXCEPT ![conversation.id] =
     [exists |-> TRUE, title |-> conversation.title, messages |-> conversation.messages,
      isLoading |-> FALSE, codexSessionId |-> Unset,
      resumePath |-> IF conversation.filePath \notin {Unset, <<>>}
                     THEN conversation.filePath ELSE Unset]]

-----------------------------------------------------------------------------
\* utils/streamController (spec.md 4.3) and the sink of createStreamSink

IdleController ==
  [state |-> "Idle", buffer |-> <<>>, sinkId |-> NoId, accumulatedContent |-> <<>>]

\* createStreamSink(messageId): let accumulatedContent = ''
createStreamSink(messageId) ==
  [sinkId |-> messageId, accumulatedContent |-> <<>>]

\* sink.insertLines(lines): the sink's accumulatedContent afterwards
insertLines(accumulatedContent, lines) ==
  LET newContent == Join(lines, <<NL>>) IN
  IF accumulatedContent # <<>> THEN accumulatedContent \o <<NL>> \o newContent
  ELSE newContent

\* begin(sink): Idle -> Streaming; a no-op when already Streaming
begin(ctrl, sink) ==
  IF ctrl.state = "Streaming" THEN ctrl
  ELSE [state |-> "Streaming", buffer |-> <<>>, sinkId |-> sink.sinkId,
        accumulatedContent |-> sink.accumulatedContent]

\* what pushAndMaybeCommit hands to insertLines: the accumulated buffer
CommittedLines(buffer) == <<buffer>>

\* pushAndMaybeCommit(deltaText): only valid in Streaming
pushAndMaybeCommit(ctrl, deltaText) ==
  IF ctrl.state # "Streaming" THEN ctrl
  ELSE LET buffer == ctrl.buffer \o deltaText IN
       [ctrl EXCEPT !.buffer = buffer,
                    !.accumulatedContent = insertLines(@, CommittedLines(buffer))]

\* finalize(commit): Streaming -> Idle, the shown content stays; a no-op when Idle
finalize(ctrl, commit) == IdleController

\* clearAll(): forcibly Idle, no sink callback
clearAll(ctrl) == IdleController

-----------------------------------------------------------------------------
\* useCodexEvents.ts: helpers of handleCodexEvent

HookConversation == conversations[sessionId]
Transcript == HookConversation.messages
Loading == HookConversation.exists /\ HookConversation.isLoading

\* msg.<field> of an untyped payload; a missing text field reads as falsy
Has(msg, field) == field \in DOMAIN msg
Opt(msg, field) == IF Has(msg, field) THEN msg[field] ELSE <<>>
Truthy(msg, field) == Has(msg, field) /\ msg[field] # <<>>

ChatMessage(id, role, title, content, messageType, eventType) ==
  [id |-> id, role |-> role, title |-> title, content |-> content,
   messageType |-> messageType, eventType |-> eventType,
   isStreaming |-> FALSE, approvalRequest |-> NoApproval, plan |-> NoPlan]

\* the literal with an isStreaming key added
conversationMessageKeepsFlag(message) ==
  [message EXCEPT
     !.role = IF message.role \in {"user", "assistant", "approval"} THEN @ ELSE "system"]

\* the object literal of addMessageToStore copies id, role, content, title,
\* approvalRequest, messageType, eventType and plan: isStreaming is not among
\* them, and readers test message.isStreaming for truthiness
conversationMessage(message) ==
  [message EXCEPT
     !.role = IF message.role \in {"user", "assistant", "approval"} THEN @ ELSE "system",
     !.isStreaming = FALSE]

\* addMessageToStore(message): `conversations` is the array of the render whose
\* effect registered the listeners
addMessageToStore(convs, message) ==
  LET ensured == IF sessionId \in conversationsAtMount THEN convs
                 ELSE createConversation(convs, <<"New Chat">>, sessionId)
  IN addMessage(ensured, sessionId, conversationMessage(message))

\* a key that also tells the payloads apart
EventKeyWithPayload(event) == <<event.id, event.msg.type, event.session_id, event.msg>>

\* `${event.id}-${event.msg.type}-${event.session_id}`
EventKey(event) == <<event.id, event.msg.type, event.session_id>>

\* the has() test left out
ProcessedHasNever(ids, key) == FALSE

\* processedEventIds.current.has(eventKey)
ProcessedHas(ids, key) == \E i \in DOMAIN ids : ids[i] = key

\* processedEventIds.current.add(eventKey)
ProcessedAdd(ids, key) ==
  IF \E i \in DOMAIN ids : ids[i] = key THEN ids ELSE Append(ids, key)

\* ids.slice(0, 500): the oldest keys kept
SliceFirst(ids, n) == IF Len(ids) <= n THEN ids ELSE SubSeq(ids, 1, n)

\* ids.slice(-500)
SliceLast(ids, n) ==
  IF Len(ids) <= n THEN ids ELSE SubSeq(ids, Len(ids) - n + 1, Len(ids))

\* if (size > 1000) processedEventIds.current = new Set(ids.slice(-500))
Cleanup(ids) == IF Len(ids) > DedupLimit THEN SliceLast(ids, DedupKeep) ELSE ids

\* sessionId.startsWith('codex-event-') ? sessionId.replace('codex-event-', '') : sessionId
StripPrefix(id) ==
  IF id = "codex-event-s1" THEN "s1"
  ELSE IF id = "codex-event-s2" THEN "s2"
  ELSE id

\* the id a session id stands for: the synthetic prefix taken off
BareId(id) == StripPrefix(id)

\* the routing test left out: every event is taken
RoutesAny(event) == TRUE

\* the routing test of handleCodexEvent
Routes(event) ==
  \/ event.session_id = NoSession
  \/ event.session_id = sessionId
  \/ event.session_id = StripPrefix(sessionId)

-----------------------------------------------------------------------------
\* useCodexEvents.ts: the cases of handleCodexEvent's switch.  Each is the
\* effect of one case on everything but the deduplication set.

\* case 'task_started'
CaseTaskStarted(event) ==
  /\ conversations' = setSessionLoading(conversations, sessionId, TRUE)
  /\ streamController' = clearAll(streamController)
  /\ currentStreamingMessageId' = NoId
  /\ UNCHANGED <<currentCommandMessageId, currentCommandInfo, uid, stopSignals>>

\* case 'task_complete' and case 'turn_complete' (the same statements twice)
CaseTaskComplete(event) ==
  /\ conversations' = setSessionLoading(conversations, sessionId, FALSE)
  /\ IF currentStreamingMessageId # NoId
     THEN /\ streamController' = finalize(streamController, TRUE)
          /\ currentStreamingMessageId' = NoId
     ELSE UNCHANGED <<streamController, currentStreamingMessageId>>
  /\ UNCHANGED <<currentCommandMessageId, currentCommandInfo, uid, stopSignals>>

\* turn_complete that ends the loading state but leaves the stream open
CaseTurnCompleteKeepsStream(event) ==
  /\ conversations' = setSessionLoading(conversations, sessionId, FALSE)
  /\ UNCHANGED <<streamController, currentStreamingMessageId, currentCommandMessageId,
                 currentCommandInfo, uid, stopSignals>>

CaseTurnComplete(event) ==
  /\ conversations' = setSessionLoading(conversations, sessionId, FALSE)
  /\ IF currentStreamingMessageId # NoId
     THEN /\ streamController' = finalize(streamController, TRUE)
          /\ currentStreamingMessageId' = NoId
     ELSE UNCHANGED <<streamController, currentStreamingMessageId>>
  /\ UNCHANGED <<currentCommandMessageId, currentCommandInfo, uid, stopSignals>>

\* agent_message that leaves an open stream as it is
CaseAgentMessageKeepsStream(event) ==
  UNCHANGED <<conversations, streamController, currentStreamingMessageId,
              currentCommandMessageId, currentCommandInfo, uid, stopSignals>>

\* the complete message also inserted as an entry of its own
CaseAgentMessageAppends(event) ==
  /\ IF Truthy(event.msg, "message") /\ currentStreamingMessageId # NoId
     THEN /\ streamController' = finalize(streamController, FALSE)
          /\ currentStreamingMessageId' = NoId
     ELSE UNCHANGED <<streamController, currentStreamingMessageId>>
  /\ conversations' =
       IF Truthy(event.msg, "message")
       THEN addMessageToStore(conversations,
                              ChatMessage(GeneratedId("message", uid + 1), "assistant", <<>>,
                                          event.msg.message, "", "agent_message"))
       ELSE conversations
  /\ uid' = uid + 1
  /\ UNCHANGED <<currentCommandMessageId, currentCommandInfo, stopSignals>>

\* case 'agent_message'
CaseAgentMessage(event) ==
  /\ IF Truthy(event.msg, "message") /\ currentStreamingMessageId # NoId
     THEN /\ streamController' = finalize(streamController, FALSE)
          /\ currentStreamingMessageId' = NoId
     ELSE UNCHANGED <<streamController, currentStreamingMessageId>>
  /\ UNCHANGED <<conversations, currentCommandMessageId, currentCommandInfo, uid,
                 stopSignals>>

\* the streamingMessage literal of case 'agent_message_delta'
StreamingMessage(messageId) ==
  [ChatMessage(messageId, "assistant", <<>>, <<>>, "", "agent_message_delta")
     EXCEPT !.isStreaming = TRUE]

\* the store after the sink's updateMessage(sessionId, messageId, {content})
SinkUpdate(convs, ctrl) ==
  updateMessage(convs, sessionId, ctrl.sinkId, [content |-> ctrl.accumulatedContent])

\* case 'agent_message_delta' without the test of currentStreamingMessageId:
\* every delta makes a streaming entry and calls begin
CaseAgentMessageDeltaAlwaysBegins(event) ==
  LET messageId == GeneratedId("stream", uid + 1)
      added == addMessageToStore(conversations, StreamingMessage(messageId))
      begun == begin(streamController, createStreamSink(messageId))
      pushes == Truthy(event.msg, "delta")
      pushed == IF pushes THEN pushAndMaybeCommit(begun, event.msg.delta) ELSE begun
  IN /\ currentStreamingMessageId' = messageId
     /\ uid' = uid + 1
     /\ streamController' = pushed
     /\ conversations' = IF pushes THEN SinkUpdate(added, pushed) ELSE added
     /\ UNCHANGED <<currentCommandMessageId, currentCommandInfo, stopSignals>>

\* case 'agent_message_delta'
CaseAgentMessageDelta(event) ==
  LET starting == currentStreamingMessageId = NoId
      messageId == GeneratedId("stream", uid + 1)
      streamId == IF starting THEN messageId ELSE currentStreamingMessageId
      added == IF starting THEN addMessageToStore(conversations, StreamingMessage(messageId))
               ELSE conversations
      begun == IF starting THEN begin(streamController, createStreamSink(messageId))
               ELSE streamController
      pushes == streamId # NoId /\ Truthy(event.msg, "delta")
      pushed == IF pushes THEN pushAndMaybeCommit(begun, event.msg.delta) ELSE begun
  IN /\ currentStreamingMessageId' = streamId
     /\ uid' = IF starting THEN uid + 1 ELSE uid
     /\ streamController' = pushed
     /\ conversations' = IF pushes /\ begun.state = "Streaming"
                         THEN SinkUpdate(added, pushed) ELSE added
     /\ UNCHANGED <<currentCommandMessageId, currentCommandInfo, stopSignals>>

\* case 'error'
CaseError(event) ==
  LET errorMessage == ChatMessage(GeneratedId("error", uid + 1), "system", <<>>,
                                  <<"Error: ">> \o Opt(event.msg, "message"), "", "error")
  IN /\ IF currentStreamingMessageId # NoId
        THEN /\ streamController' = finalize(streamController, TRUE)
             /\ currentStreamingMessageId' = NoId
        ELSE UNCHANGED <<streamController, currentStreamingMessageId>>
     /\ conversations' =
          setSessionLoading(addMessageToStore(conversations, errorMessage), sessionId, FALSE)
     /\ uid' = uid + 1
     /\ UNCHANGED <<currentCommandMessageId, currentCommandInfo, stopSignals>>

\* shutdown_complete that clears the controller and keeps the streaming id
CaseShutdownCompleteKeepsId(event) ==
  /\ streamController' = clearAll(streamController)
  /\ UNCHANGED <<conversations, currentStreamingMessageId, currentCommandMessageId,
                 currentCommandInfo, uid, stopSignals>>

\* case 'shutdown_complete'
CaseShutdownComplete(event) ==
  /\ streamController' = clearAll(streamController)
  /\ currentStreamingMessageId' = NoId
  /\ UNCHANGED <<conversations, currentCommandMessageId, currentCommandInfo, uid,
                 stopSignals>>

\* the abortMessage literal of case 'turn_aborted'
AbortMessage(event, id) ==
  ChatMessage(id, "system", <<GlyphStop, " Turn Stopped">>,
               IF Truthy(event.msg, "reason") THEN <<"Reason: ">> \o event.msg.reason
               ELSE <<"The current turn has been aborted.">>,
               "", "turn_aborted")

\* turn_aborted without the clean-up of the command tracking
CaseTurnAbortedKeepsCommand(event) ==
  /\ conversations' =
       setSessionLoading(
         addMessageToStore(conversations, AbortMessage(event, GeneratedId("aborted", uid + 1))),
         sessionId, FALSE)
  /\ uid' = uid + 1
  /\ IF currentStreamingMessageId # NoId
     THEN /\ streamController' = finalize(streamController, FALSE)
          /\ currentStreamingMessageId' = NoId
     ELSE UNCHANGED <<streamController, currentStreamingMessageId>>
  /\ UNCHANGED <<currentCommandMessageId, currentCommandInfo>>
  /\ stopSignals' = IF hasStopCallback THEN stopSignals + 1 ELSE stopSignals

\* case 'turn_aborted'
CaseTurnAborted(event) ==
  /\ conversations' =
       setSessionLoading(
         addMessageToStore(conversations, AbortMessage(event, GeneratedId("aborted", uid + 1))),
         sessionId, FALSE)
  /\ uid' = uid + 1
  /\ IF currentStreamingMessageId # NoId
     THEN /\ streamController' = finalize(streamController, FALSE)
          /\ currentStreamingMessageId' = NoId
     ELSE UNCHANGED <<streamController, currentStreamingMessageId>>
  /\ IF currentCommandMessageId # NoId
     THEN /\ currentCommandMessageId' = NoId
          /\ currentCommandInfo' = NoCommandInfo
     ELSE UNCHANGED <<currentCommandMessageId, currentCommandInfo>>
  /\ stopSignals' = IF hasStopCallback THEN stopSignals + 1 ELSE stopSignals

\* the commandMessage literal of case 'exec_command_begin'
CommandMessage(event, id) ==
  ChatMessage(id, "system", <<GlyphRun, Space>> \o Join(event.msg.command, <<Space>>),
              <<"cwd: ">> \o Opt(event.msg, "cwd"), "exec_command", "exec_command_begin")

\* case 'exec_command_begin'
CaseExecCommandBegin(event) ==
  LET cmdMessageId == GeneratedId("cmd", uid + 1) IN
  /\ currentCommandMessageId' = cmdMessageId
  /\ currentCommandInfo' =
       [set |-> TRUE, command |-> event.msg.command, cwd |-> Opt(event.msg, "cwd")]
  /\ conversations' = addMessageToStore(conversations, CommandMessage(event, cmdMessageId))
  /\ uid' = uid + 1
  /\ UNCHANGED <<streamController, currentStreamingMessageId, stopSignals>>

\* the success glyph whatever the exit code
ExitStatusAlwaysOk(exit_code) == <<GlyphOk>>

\* status and statusText of case 'exec_command_end'
ExitStatus(exit_code) ==
  IF exit_code = 0 THEN <<GlyphOk>>
  ELSE <<GlyphFail, " (exit ">> \o NumText(exit_code) \o <<")">>

\* stdoutBlock
StdoutBlock(msg) ==
  IF Trim(Opt(msg, "stdout")) # <<>>
  THEN <<NL, Fence, NL>> \o msg.stdout \o <<NL, Fence>>
  ELSE <<>>

\* stderrBlock
StderrBlock(msg) ==
  IF Trim(Opt(msg, "stderr")) # <<>>
  THEN (IF Trim(Opt(msg, "stdout")) # <<>> THEN <<NL, NL>> ELSE <<>>)
       \o <<"Errors:", NL, Fence, NL>> \o msg.stderr \o <<NL, Fence>>
  ELSE <<>>

\* the updates object of case 'exec_command_end'
CommandUpdates(info, msg) ==
  [title |-> Join(info.command, <<Space>>) \o <<Space>> \o ExitStatus(msg.exit_code),
   content |-> StdoutBlock(msg) \o StderrBlock(msg)]

\* exec_command_end that completes the entry and keeps remembering it
CaseExecCommandEndKeepsPointer(event) ==
  IF currentCommandMessageId # NoId /\ currentCommandInfo.set
  THEN /\ conversations' = updateMessage(conversations, sessionId, currentCommandMessageId,
                                         CommandUpdates(currentCommandInfo, event.msg))
       /\ UNCHANGED <<streamController, currentStreamingMessageId, currentCommandMessageId,
                      currentCommandInfo, uid, stopSignals>>
  ELSE UNCHANGED reducerState

\* case 'exec_command_end'
CaseExecCommandEnd(event) ==
  IF currentCommandMessageId # NoId /\ currentCommandInfo.set
  THEN /\ conversations' = updateMessage(conversations, sessionId, currentCommandMessageId,
                                         CommandUpdates(currentCommandInfo, event.msg))
       /\ currentCommandMessageId' = NoId
       /\ currentCommandInfo' = NoCommandInfo
       /\ UNCHANGED <<streamController, currentStreamingMessageId, uid, stopSignals>>
  ELSE UNCHANGED reducerState

\* execMessage of case 'exec_approval_request'
ExecApprovalMessage(event) ==
  LET command == Join(event.msg.command, <<Space>>) IN
  [ChatMessage(event.id, "approval", <<GlyphExec, " Execute: ">> \o command,
               <<"Working directory: ">> \o Opt(event.msg, "cwd"),
               "", "exec_approval_request")
     EXCEPT !.approvalRequest = [id |-> event.id, type |-> "exec"]]

\* patchMessage of case 'patch_approval_request'
PatchApprovalMessage(event) ==
  [ChatMessage(event.id, "approval",
               <<GlyphPatch, " Patch: ">> \o
                 (IF Join(Opt(event.msg, "files"), <<", ">>) # <<>>
                  THEN Join(event.msg.files, <<", ">>) ELSE <<"unknown files">>),
               <<"Requesting approval to apply patch">>,
               "", "patch_approval_request")
     EXCEPT !.approvalRequest = [id |-> event.id, type |-> "patch"]]

\* the entry under a generated id, like the other synthetic entries
ApplyPatchApprovalMessageFreshId(event) ==
  [ChatMessage(GeneratedId("approval", uid + 1), "approval", <<GlyphApply, " Apply Patch">>,
               <<"Changes:", NL>>, "", "apply_patch_approval_request")
     EXCEPT !.approvalRequest = [id |-> event.id, type |-> "apply_patch"]]

\* applyPatchMessage of case 'apply_patch_approval_request'; msg.changes is taken
\* as absent or as the list of Object.entries, each entry an `add` of a file
ApplyPatchApprovalMessage(event) ==
  LET entries == Opt(event.msg, "changes")
      summary(entry) == <<"Add ">> \o entry.file \o <<NL>> \o entry.content
      changesText == IF entries = <<>> THEN <<"No change details available">>
                     ELSE Join([i \in DOMAIN entries |-> summary(entries[i])], <<NL, NL>>)
      titleFiles == Join([i \in DOMAIN entries |-> entries[i].file], <<", ">>)
  IN [ChatMessage(event.id, "approval",
                  <<GlyphApply, " Apply Patch">> \o
                    (IF titleFiles # <<>> THEN <<": ">> \o titleFiles ELSE <<>>),
                  (IF Truthy(event.msg, "reason")
                   THEN <<"Reason: ">> \o event.msg.reason \o <<NL, NL>> ELSE <<>>)
                    \o <<"Changes:", NL>> \o changesText,
                  "", "apply_patch_approval_request")
        EXCEPT !.approvalRequest = [id |-> event.id, type |-> "apply_patch"]]

\* cases 'exec_approval_request', 'patch_approval_request', 'apply_patch_approval_request'
CaseApproval(message) ==
  /\ conversations' = addMessageToStore(conversations, message)
  /\ UNCHANGED <<streamController, currentStreamingMessageId, currentCommandMessageId,
                 currentCommandInfo, uid, stopSignals>>

\* case 'session_configured': the handle is stored and the look-up of the
\* rollout path is started; its promise settles later (LookupResolves,
\* LookupRejects)
CaseSessionConfigured(event) ==
  /\ IF Truthy(event.msg, "session_id")
     THEN /\ conversations' =
               setResumeMeta(conversations, sessionId,
                             [codexSessionId |-> event.msg.session_id])
          /\ lookups' = lookups \cup {[sessionUuid |-> event.msg.session_id,
                                       conversationId |-> sessionId]}
     ELSE UNCHANGED <<conversations, lookups>>
  /\ UNCHANGED <<streamController, currentStreamingMessageId, currentCommandMessageId,
                 currentCommandInfo, uid, stopSignals, lastTurnDiffRef, turnDiffs,
                 turnDiffPublishes>>

\* msg.text ?? msg.reasoning ?? msg.content
ReasoningContent(msg) ==
  IF Has(msg, "text") THEN msg.text
  ELSE IF Has(msg, "reasoning") THEN msg.reasoning
  ELSE IF Has(msg, "content") THEN msg.content
  ELSE <<>>

\* case 'agent_reasoning', case 'agent_reasoning_raw_content'
CaseAgentReasoning(event) ==
  LET reasoningContent == ReasoningContent(event.msg) IN
  /\ IF reasoningContent # <<>>
     THEN /\ conversations' =
               addMessageToStore(conversations,
                 ChatMessage(GeneratedId("reasoning", uid + 1), "system", <<>>,
                             reasoningContent, "reasoning", event.msg.type))
          /\ uid' = uid + 1
     ELSE UNCHANGED <<conversations, uid>>
  /\ UNCHANGED <<streamController, currentStreamingMessageId, currentCommandMessageId,
                 currentCommandInfo, stopSignals>>

\* case 'plan_update'
CasePlanUpdate(event) ==
  LET planPayload == [explanation |-> IF Has(event.msg, "explanation")
                                      THEN event.msg.explanation ELSE Unset,
                      plan |-> IF Has(event.msg, "plan") THEN event.msg.plan ELSE <<>>]
      planMessage == [ChatMessage(GeneratedId("plan", uid + 1), "system", <<>>, <<>>,
                                  "plan_update", "plan_update")
                        EXCEPT !.plan = planPayload]
  IN /\ conversations' = addMessageToStore(conversations, planMessage)
     /\ uid' = uid + 1
     /\ UNCHANGED <<streamController, currentStreamingMessageId, currentCommandMessageId,
                    currentCommandInfo, stopSignals>>

\* String.prototype.toLowerCase, for the letters of the tool names at hand
ToLowerCase(text) ==
  [i \in DOMAIN text |->
     CASE text[i] = "R" -> "r" [] text[i] = "E" -> "e" [] text[i] = "W" -> "w"
       [] text[i] = "G" -> "g" [] text[i] = "U" -> "u" [] text[i] = "T" -> "t"
       [] OTHER -> text[i]]

\* String.prototype.includes
Includes(text, part) ==
  \E i \in 0..(Len(text) - Len(part)) : SubSeq(text, i + 1, i + Len(part)) = part

\* ['read', 'edit', 'write', 'glob', 'grep']
ShownTools ==
  {<<"r", "e", "a", "d">>, <<"e", "d", "i", "t">>, <<"w", "r", "i", "t", "e">>,
   <<"g", "l", "o", "b">>, <<"g", "r", "e", "p">>}

\* case 'mcp_tool_call_begin'
CaseMcpToolCallBegin(event) ==
  LET toolName == IF Has(event.msg, "invocation") /\ Truthy(event.msg.invocation, "tool")
                  THEN event.msg.invocation.tool
                  ELSE <<"U", "n", "k", "n", "o", "w", "n", " ", "T", "o", "o", "l">>
  IN /\ IF \E t \in ShownTools : Includes(ToLowerCase(toolName), t)
        THEN /\ conversations' =
                  addMessageToStore(conversations,
                    ChatMessage(GeneratedId("mcp", uid + 1), "system",
                                <<GlyphTool, Space>> \o toolName, <<>>, "tool_call",
                                "mcp_tool_call_begin"))
             /\ uid' = uid + 1
        ELSE UNCHANGED <<conversations, uid>>
     /\ UNCHANGED <<streamController, currentStreamingMessageId, currentCommandMessageId,
                    currentCommandInfo, stopSignals>>

\* case 'web_search_begin'
CaseWebSearchBegin(event) ==
  /\ conversations' =
       addMessageToStore(conversations,
         ChatMessage(GeneratedId("search-begin", uid + 1), "system",
                     <<GlyphSearch, Space>> \o Opt(event.msg, "query"),
                     <<"Searching web...">>, "", "web_search_begin"))
  /\ uid' = uid + 1
  /\ UNCHANGED <<streamController, currentStreamingMessageId, currentCommandMessageId,
                 currentCommandInfo, stopSignals>>

\* EphemeralStore.setTurnDiff(sessionId, diffText): the session's slot holds the
\* latest diff
setTurnDiff(slots, id, diffText) == [slots EXCEPT ![id] = diffText]

\* case 'turn_diff'
CaseTurnDiff(event) ==
  LET diffText == Opt(event.msg, "unified_diff") IN
  /\ IF lastTurnDiffRef = diffText
     THEN UNCHANGED <<lastTurnDiffRef, turnDiffs, turnDiffPublishes>>
     ELSE /\ lastTurnDiffRef' = diffText
          /\ turnDiffs' = setTurnDiff(turnDiffs, sessionId, diffText)
          /\ turnDiffPublishes' = turnDiffPublishes + 1
  /\ UNCHANGED <<conversations, streamController, currentStreamingMessageId,
                 currentCommandMessageId, currentCommandInfo, uid, stopSignals, lookups>>

\* the kinds whose case only breaks (two of them after a console.log)
SuppressedKinds ==
  {"agent_reasoning_delta", "agent_reasoning_raw_content_delta", "mcp_tool_call_end",
   "patch_apply_begin", "patch_apply_end", "web_search_end", "background_event",
   "exec_command_output_delta", "token_count"}

\* a suppressed kind shown as a system entry of the transcript
CaseSuppressedShows(event) ==
  /\ conversations' =
       addMessageToStore(conversations,
         ChatMessage(GeneratedId("noise", uid + 1), "system", <<event.msg.type>>, <<>>,
                     "", event.msg.type))
  /\ uid' = uid + 1
  /\ UNCHANGED <<streamController, currentStreamingMessageId, currentCommandMessageId,
                 currentCommandInfo, stopSignals>>

\* the cases that only break (or log and break)
CaseSuppressed(event) == UNCHANGED reducerState

\* the default case: two console.log calls
CaseIgnored(event) == UNCHANGED reducerState

\* switch (msg.type): the cases that leave the diff and resume state alone
DispatchTranscript(event) ==
  LET type == event.msg.type IN
  CASE type = "task_started" -> CaseTaskStarted(event)
    [] type = "task_complete" -> CaseTaskComplete(event)
    [] type = "turn_complete" -> CaseTurnComplete(event)
    [] type = "agent_message" -> CaseAgentMessage(event)
    [] type \in {"agent_reasoning", "agent_reasoning_raw_content"} ->
         CaseAgentReasoning(event)
    [] type = "plan_update" -> CasePlanUpdate(event)
    [] type = "mcp_tool_call_begin" -> CaseMcpToolCallBegin(event)
    [] type = "web_search_begin" -> CaseWebSearchBegin(event)
    [] type = "agent_message_delta" -> CaseAgentMessageDelta(event)
    [] type = "exec_approval_request" -> CaseApproval(ExecApprovalMessage(event))
    [] type = "patch_approval_request" -> CaseApproval(PatchApprovalMessage(event))
    [] type = "apply_patch_approval_request" ->
         CaseApproval(ApplyPatchApprovalMessage(event))
    [] type = "error" -> CaseError(event)
    [] type = "shutdown_complete" -> CaseShutdownComplete(event)
    [] type = "exec_command_begin" -> CaseExecCommandBegin(event)
    [] type = "exec_command_end" -> CaseExecCommandEnd(event)
    [] type = "turn_aborted" -> CaseTurnAborted(event)
    [] type \in SuppressedKinds -> CaseSuppressed(event)
    [] OTHER -> CaseIgnored(event)

\* switch (msg.type)
Dispatch(event) ==
  LET type == event.msg.type IN
  CASE type = "session_configured" -> CaseSessionConfigured(event)
    [] type = "turn_diff" -> CaseTurnDiff(event)
    [] OTHER -> DispatchTranscript(event) /\ UNCHANGED sessionState

\* handleCodexEvent(event)
handleCodexEvent(event) ==
  LET eventKey == EventKey(event) IN
  IF ProcessedHas(processedEventIds, eventKey)
  THEN UNCHANGED <<processedEventIds, reducerState>>
  ELSE /\ processedEventIds' = Cleanup(ProcessedAdd(processedEventIds, eventKey))
       /\ IF Routes(event) THEN Dispatch(event) ELSE UNCHANGED reducerState

-----------------------------------------------------------------------------
\* useCodexEvents.ts: the two listeners of the effect

\* content of the entry the open stream writes to, <<>> when there is none
StreamContent ==
  LET hits == {i \in DOMAIN Transcript : Transcript[i].id = currentStreamingMessageId}
  IN IF hits = {} THEN <<>> ELSE Transcript[CHOOSE i \in hits : TRUE].content

\* the record kept of a listener call: the event handed to handleCodexEvent,
\* whether its key had been seen, and the reducer's state on entry; prior is the
\* stream that was open when the latest agent_message or task_started went
\* through the switch, with the content its entry had then
Observe(channel, event) ==
  [channel |-> channel,
   dup |-> \E i \in DOMAIN processedEventIds :
              processedEventIds[i] = <<event.id, event.msg.type, event.session_id>>,
   routed |-> Routes(event),
   event |-> event,
   len |-> Len(Transcript),
   streamId |-> currentStreamingMessageId,
   commandId |-> currentCommandMessageId,
   loading |-> Loading,
   stops |-> stopSignals,
   content |-> StreamContent,
   seen |-> Len(processedEventIds),
   threw |-> FALSE,
   diff |-> lastTurnDiffRef,
   publishes |-> turnDiffPublishes,
   ctrl |-> streamController,
   uid |-> uid,
   title |-> HookConversation.title,
   renamed |-> last.renamed,
   teardowns |-> last.teardowns,
   calls |-> last.calls,
   prevDiff |-> last.seenDiffs[sessionId],
   prior |->
     IF /\ event.msg.type \in {"agent_message", "task_started"}
        /\ currentStreamingMessageId # NoId
        /\ Routes(event)
        /\ ~\E i \in DOMAIN processedEventIds :
              processedEventIds[i] = <<event.id, event.msg.type, event.session_id>>
     THEN [id |-> currentStreamingMessageId, content |-> StreamContent,
           by |-> event.msg.type,
           text |-> event.msg.type = "agent_message" /\ Truthy(event.msg, "message")]
     ELSE last.prior,
   seenDiffs |->
     IF /\ event.msg.type = "turn_diff"
        /\ ~\E i \in DOMAIN processedEventIds :
              processedEventIds[i] = <<event.id, event.msg.type, event.session_id>>
        /\ BareId(event.session_id) \in {NoSession, BareId(sessionId)}
     THEN [last.seenDiffs EXCEPT ![sessionId] = Opt(event.msg, "unified_diff")]
     ELSE last.seenDiffs]

\* the record kept of a listener call that ended in a TypeError before
\* handleCodexEvent was reached
ObserveThrown(channel) ==
  [Observe(channel, NoLast.event) EXCEPT !.threw = TRUE, !.routed = FALSE]

\* listen("codex-events", ...), for a payload that carries msg
CodexEvents(event) ==
  /\ mounted
  /\ last' = Observe("structured", event)
  /\ handleCodexEvent(event)
  /\ UNCHANGED <<conversationsAtMount, sessionId, hasStopCallback, steering, mounted>>

\* listen("codex-events", ...), for a payload without msg: codexEvent.msg.type
\* is read for the log line before anything else
CodexEventsMalformed ==
  /\ mounted
  /\ last' = ObserveThrown("structured")
  /\ UNCHANGED <<conversationsAtMount, sessionId, hasStopCallback, steering, mounted,
                 processedEventIds, reducerState>>

\* typeof baseMsg.<field> === 'string'
IsString(msg, field) == Has(msg, field)

\* the field-synonym switch of the raw listener
NormalizeMsg(baseMsg) ==
  LET t == baseMsg.type
      rename(from, to) ==
        IF IsString(baseMsg, from) /\ ~IsString(baseMsg, to)
        THEN [f \in DOMAIN baseMsg \cup {to} |-> IF f = to THEN baseMsg[from] ELSE baseMsg[f]]
        ELSE baseMsg
  IN CASE t = "agent_reasoning" -> rename("text", "reasoning")
       [] t = "agent_reasoning_delta" -> rename("text", "delta")
       [] t = "agent_reasoning_raw_content" -> rename("text", "content")
       [] t = "agent_message_delta" -> rename("text", "delta")
       [] t = "turn_diff" -> rename("diff", "unified_diff")
       [] OTHER -> baseMsg

\* A raw payload's data is [kind |-> "object", ...] with id and msg as far as it
\* carries them, or [kind |-> "null"], [kind |-> "string"] for a value that is
\* no object; a payload without data has no data field.  A msg that is no
\* object, or has no type, reads type as undefined.

\* `raw-${Date.now()}`: the clock's readings
RawIds == {[tag |-> "raw", n |-> 1], [tag |-> "raw", n |-> 2]}

\* const rawMsgType = rawEvent.data.msg.type throws a TypeError
RawTypeThrows(rawEvent) ==
  \/ ~Has(rawEvent, "data")
  \/ rawEvent.data.kind # "object"
  \/ ~Has(rawEvent.data, "msg")

\* typeof baseMsg === 'object'
IsObject(value) == ~Has(value, "kind") \/ value.kind = "object"

\* convertedEvent of the raw listener; now is the clock's reading
ConvertRaw(rawEvent, now) ==
  [id |-> IF Has(rawEvent.data, "id") THEN rawEvent.data.id ELSE now,
   msg |-> IF IsObject(rawEvent.data.msg) THEN NormalizeMsg(rawEvent.data.msg)
           ELSE rawEvent.data.msg,
   session_id |-> rawEvent.session_id]

\* listen("codex-raw-events", ...)
CodexRawEvents(rawEvent, now) ==
  /\ mounted
  /\ IF RawTypeThrows(rawEvent)
     THEN /\ last' = ObserveThrown("raw")
          /\ UNCHANGED <<processedEventIds, reducerState>>
     ELSE /\ last' = Observe("raw", ConvertRaw(rawEvent, now))
          /\ handleCodexEvent(ConvertRaw(rawEvent, now))
  /\ UNCHANGED <<conversationsAtMount, sessionId, hasStopCallback, steering, mounted>>

\* the promise of invoke('find_rollout_path_for_session') resolves with a
\* path or with null: .then((path) => { if (path) setResumeMeta(...) })
LookupResolves(lookup, path) ==
  /\ lookup \in lookups
  /\ last' = Observe("lookup", [id |-> NoId, session_id |-> NoSession,
                                msg |-> [type |-> "lookup_resolved",
                                         sessionUuid |-> lookup.sessionUuid,
                                         conversationId |-> lookup.conversationId,
                                         path |-> path]])
  /\ conversations' =
       IF path # Unset /\ path # <<>>
       THEN setResumeMeta(conversations, lookup.conversationId, [resumePath |-> path])
       ELSE conversations
  /\ lookups' = lookups \ {lookup}
  /\ UNCHANGED <<conversationsAtMount, sessionId, hasStopCallback, steering, streamController,
                 currentStreamingMessageId, currentCommandMessageId, currentCommandInfo,
                 processedEventIds, uid, stopSignals, lastTurnDiffRef, turnDiffs,
                 turnDiffPublishes, mounted>>

\* the promise rejects: .catch(() => {})
LookupRejects(lookup) ==
  /\ lookup \in lookups
  /\ last' = Observe("lookup", [id |-> NoId, session_id |-> NoSession,
                                msg |-> [type |-> "lookup_rejected",
                                         sessionUuid |-> lookup.sessionUuid,
                                         conversationId |-> lookup.conversationId]])
  /\ lookups' = lookups \ {lookup}
  /\ UNCHANGED <<conversations, conversationsAtMount, sessionId, hasStopCallback, steering,
                 streamController, currentStreamingMessageId, currentCommandMessageId,
                 currentCommandInfo, processedEventIds, uid, stopSignals,
                 lastTurnDiffRef, turnDiffs, turnDiffPublishes, mounted>>

\* the clean-up the effect returns, without the processedEventIds.clear()
EffectCleanupKeepsKeys ==
  /\ streamController' = clearAll(streamController)
  /\ currentStreamingMessageId' = NoId
  /\ currentCommandMessageId' = NoId
  /\ currentCommandInfo' = NoCommandInfo
  /\ UNCHANGED processedEventIds

\* the clean-up function the effect returns (the two unlisten calls aside)
EffectCleanup ==
  /\ streamController' = clearAll(streamController)
  /\ currentStreamingMessageId' = NoId
  /\ currentCommandMessageId' = NoId
  /\ currentCommandInfo' = NoCommandInfo
  /\ processedEventIds' = <<>>

\* the component unmounts: the clean-up runs, the refs are gone with the hook
Unmount ==
  /\ mounted
  /\ last' = [Observe("teardown", [id |-> NoId, session_id |-> NoSession,
                                   msg |-> [type |-> "unmount"]])
                EXCEPT !.teardowns = @ + 1]
  /\ EffectCleanup
  /\ mounted' = FALSE
  /\ UNCHANGED <<conversations, conversationsAtMount, sessionId, hasStopCallback, steering, uid,
                 stopSignals, lastTurnDiffRef, turnDiffs, turnDiffPublishes, lookups>>

\* the sessionId prop changes: the clean-up runs and the effect runs again,
\* its listeners closing over the new session id and the store as it is now;
\* the refs of the hook stay
SwitchSession(id) ==
  /\ mounted
  /\ id # sessionId
  /\ last' = [Observe("teardown", [id |-> NoId, session_id |-> NoSession,
                                   msg |-> [type |-> "switch"]])
                EXCEPT !.teardowns = @ + 1]
  /\ EffectCleanup
  /\ sessionId' = id
  /\ conversationsAtMount' = {c \in ConversationIds : conversations[c].exists}
  /\ UNCHANGED <<conversations, hasStopCallback, steering, uid, stopSignals, lastTurnDiffRef,
                 turnDiffs, turnDiffPublishes, lookups, mounted>>

\* A caller of the store outside the hook (the chat view): createConversation()
\* with the default title, addMessage of an entry it made, and the user's
\* rename.  Each is recorded like a listener call, on the channel "store".
StoreCall(type) == [id |-> NoId, session_id |-> NoSession, msg |-> [type |-> type]]

StoreCreateConversation ==
  /\ last' = Observe("store", StoreCall("createConversation"))
  /\ conversations' = createConversation(conversations, <<"New Conversation">>, sessionId)
  /\ UNCHANGED <<conversationsAtMount, sessionId, hasStopCallback, steering, streamController,
                 currentStreamingMessageId, currentCommandMessageId, currentCommandInfo,
                 processedEventIds, uid, stopSignals, lastTurnDiffRef, turnDiffs,
                 turnDiffPublishes, lookups, mounted>>

StoreAddMessage(role, content) ==
  /\ last' = Observe("store", StoreCall("addMessage"))
  /\ conversations' =
       addMessage(conversations, sessionId,
                  conversationMessage(ChatMessage(GeneratedId("msg", uid + 1), role, <<>>,
                                                  content, "", "")))
  /\ uid' = uid + 1
  /\ UNCHANGED <<conversationsAtMount, sessionId, hasStopCallback, steering, streamController,
                 currentStreamingMessageId, currentCommandMessageId, currentCommandInfo,
                 processedEventIds, stopSignals, lastTurnDiffRef, turnDiffs,
                 turnDiffPublishes, lookups, mounted>>

StoreUpdateConversationTitle(title) ==
  /\ last' = [Observe("store", StoreCall("updateConversationTitle"))
                EXCEPT !.renamed = HookConversation.exists]
  /\ conversations' = updateConversationTitle(conversations, sessionId, title)
  /\ UNCHANGED <<conversationsAtMount, sessionId, hasStopCallback, steering, streamController,
                 currentStreamingMessageId, currentCommandMessageId, currentCommandInfo,
                 processedEventIds, uid, stopSignals, lastTurnDiffRef, turnDiffs,
                 turnDiffPublishes, lookups, mounted>>

\* the chat view's edit-and-resend, the sidebar's delete and the history list's
\* select, recorded with their arguments
StoreTruncateMessagesFrom(conversationId, fromMessageId) ==
  /\ last' = [Observe("store", [id |-> NoId, session_id |-> NoSession,
                               msg |-> [type |-> "truncateMessagesFrom",
                                        conversationId |-> conversationId,
                                        fromMessageId |-> fromMessageId]])
                EXCEPT !.calls = @ + 1]
  /\ conversations' = truncateMessagesFrom(conversations, conversationId, fromMessageId)
  /\ UNCHANGED <<conversationsAtMount, sessionId, hasStopCallback, steering, streamController,
                 currentStreamingMessageId, currentCommandMessageId, currentCommandInfo,
                 processedEventIds, uid, stopSignals, lastTurnDiffRef, turnDiffs,
                 turnDiffPublishes, lookups, mounted>>

StoreDeleteConversation(conversationId) ==
  /\ last' = [Observe("store", [id |-> NoId, session_id |-> NoSession,
                               msg |-> [type |-> "deleteConversation",
                                        conversationId |-> conversationId]])
                EXCEPT !.calls = @ + 1]
  /\ conversations' = deleteConversation(conversations, conversationId)
  /\ UNCHANGED <<conversationsAtMount, sessionId, hasStopCallback, steering, streamController,
                 currentStreamingMessageId, currentCommandMessageId, currentCommandInfo,
                 processedEventIds, uid, stopSignals, lastTurnDiffRef, turnDiffs,
                 turnDiffPublishes, lookups, mounted>>

StoreSelectHistoryConversation(conversation) ==
  /\ last' = [Observe("store", [id |-> NoId, session_id |-> NoSession,
                               msg |-> [type |-> "selectHistoryConversation",
                                        conversationId |-> conversation.id]])
                EXCEPT !.calls = @ + 1]
  /\ conversations' = selectHistoryConversation(conversations, conversation)
  /\ UNCHANGED <<conversationsAtMount, sessionId, hasStopCallback, steering, streamController,
                 currentStreamingMessageId, currentCommandMessageId, currentCommandInfo,
                 processedEventIds, uid, stopSignals, lastTurnDiffRef, turnDiffs,
                 turnDiffPublishes, lookups, mounted>>

-----------------------------------------------------------------------------
\* stores/AgentSteeringStore.ts.  A Record<string, T> is a function whose
\* domain is its keys, or, where Object.values is iterated, a sequence in
\* insertion order.  An optional number that the code only tests for
\* truthiness is 0 when it is absent.  Date.now() reads steering.now.

\* reading a key the object does not have, and a key set to undefined
Undefined == [kind |-> "undefined"]

Get(map, key) == IF key \in DOMAIN map THEN map[key] ELSE Undefined

\* { ...map, [key]: value }
Put(map, key, value) ==
  [k \in DOMAIN map \cup {key} |-> IF k = key THEN value ELSE map[k]]

\* the initial state of the store
NoSteering ==
  [specs |-> <<>>, reminders |-> <<>>, activations |-> <<>>, activeReminders |-> <<>>,
   cooldownSpecs |-> <<>>, lastActivation |-> 0, now |-> 1, ids |-> 0]

\* conditions absent
NoConditions ==
  [conversation_length_min |-> 0, conversation_length_max |-> 0, context_files_min |-> 0]

\* state.specs[id]
SpecById(s, id) ==
  LET hits == {i \in DOMAIN s.specs : s.specs[i].id = id} IN
  IF hits = {} THEN Undefined ELSE s.specs[CHOOSE i \in hits : TRUE]

\* createSpec(name, description, false): no app type is attached
createSpec(s, name) ==
  LET id == GeneratedId("steer", s.ids + 1)
      spec == [kind |-> "spec", id |-> id, name |-> name, enabled |-> TRUE,
               triggers |-> <<>>, actions |-> <<>>, conditions |-> NoConditions,
               max_activations |-> 0, cooldown_ms |-> 0]
  IN [s EXCEPT !.ids = @ + 1, !.specs = Append(@, spec)]

\* updateSpec(id, updates)
updateSpec(s, id, updates) ==
  IF SpecById(s, id) = Undefined THEN s
  ELSE [s EXCEPT !.specs =
          [i \in DOMAIN @ |-> IF @[i].id = id THEN Merge(@[i], updates) ELSE @[i]]]

\* createReminder(specId, message, priority, scheduledFor)
createReminder(s, specId, priority, scheduledFor) ==
  LET id == GeneratedId("steer", s.ids + 1)
      reminder == [kind |-> "reminder", id |-> id, spec_id |-> specId,
                   priority |-> priority, created_at |-> s.now,
                   scheduled_for |-> scheduledFor, dismissed |-> FALSE,
                   auto_dismiss_after_ms |-> 0]
  IN [s EXCEPT !.ids = @ + 1,
               !.reminders = Put(@, id, reminder),
               !.activeReminders = IF scheduledFor # 0 /\ scheduledFor > s.now THEN @
                                   ELSE Append(@, id)]

\* dismissReminder(id): the key id is written in either case, with the
\* dismissed reminder or with state.reminders[id] as it was read
dismissReminder(s, id) ==
  LET found == Get(s.reminders, id) IN
  [s EXCEPT !.reminders = Put(@, id, IF found # Undefined
                                     THEN [found EXCEPT !.dismissed = TRUE]
                                     ELSE found),
            !.activeReminders = SelectSeq(@, LAMBDA rid : rid # id)]

\* getActiveReminders()
getActiveReminders(s) ==
  LET mapped == [i \in DOMAIN s.activeReminders |-> Get(s.reminders, s.activeReminders[i])]
      shown(reminder) ==
        /\ reminder # Undefined
        /\ ~reminder.dismissed
        /\ (reminder.scheduled_for = 0 \/ reminder.scheduled_for <= s.now)
        /\ (reminder.auto_dismiss_after_ms = 0
              \/ s.now - reminder.created_at < reminder.auto_dismiss_after_ms)
  IN SelectSeq(mapped, shown)

\* cleanupExpiredReminders reads reminder.auto_dismiss_after_ms of every value
\* of the map: a TypeError when a value is undefined
CleanupThrows(s) == \E k \in DOMAIN s.reminders : s.reminders[k] = Undefined

\* cleanupExpiredReminders(), when it does not throw
cleanupExpiredReminders(s) ==
  LET expired == {k \in DOMAIN s.reminders :
                    /\ s.reminders[k].auto_dismiss_after_ms # 0
                    /\ s.now - s.reminders[k].created_at >=
                         s.reminders[k].auto_dismiss_after_ms
                    /\ ~s.reminders[k].dismissed}
  IN [s EXCEPT !.reminders = [k \in DOMAIN @ |-> IF k \in expired
                                                 THEN [@[k] EXCEPT !.dismissed = TRUE]
                                                 ELSE @[k]],
               !.activeReminders = SelectSeq(@, LAMBDA rid : rid \notin expired)]

\* recordActivation(specId, trigger, action, conversationId, messageId)
recordActivation(s, specId, trigger, action) ==
  LET id == GeneratedId("steer", s.ids + 1)
      activation == [id |-> id, spec_id |-> specId, trigger |-> trigger,
                     action |-> action, activated_at |-> s.now]
      spec == SpecById(s, specId)
  IN [s EXCEPT !.ids = @ + 1,
               !.activations = Append(@, activation),
               !.lastActivation = s.now,
               !.cooldownSpecs = IF spec # Undefined /\ spec.cooldown_ms # 0
                                 THEN Put(@, specId, s.now + spec.cooldown_ms)
                                 ELSE @]

\* isSpecInCooldown(specId)
isSpecInCooldown(s, specId) ==
  LET cooldownEnd == IF specId \in DOMAIN s.cooldownSpecs THEN s.cooldownSpecs[specId]
                     ELSE 0
  IN IF cooldownEnd # 0 THEN s.now < cooldownEnd ELSE FALSE

\* getSpecActivationCount(specId)
getSpecActivationCount(s, specId) ==
  Cardinality({i \in DOMAIN s.activations : s.activations[i].spec_id = specId})

\* the callback of spec.triggers.some in shouldActivateSpec
TriggerFires(s, trigger, context) ==
  CASE trigger.type = "time_interval" ->
         IF s.lastActivation # 0
         THEN context.currentTimestamp - s.lastActivation >= trigger.intervalMs
         ELSE TRUE
    [] trigger.type = "plan_step" -> context.lastPlanStep = trigger.stepStatus
    [] trigger.type = "message_count" -> context.conversationLength >= trigger.count
    [] trigger.type = "idle_time" ->
         context.currentTimestamp - context.lastMessageTimestamp >= trigger.idleMs
    [] trigger.type = "context_change" -> context.recentContextChange
    [] OTHER -> FALSE

\* shouldActivateSpec(spec, context); the context carries no modelType
shouldActivateSpec(s, spec, context) ==
  LET c == spec.conditions IN
  IF isSpecInCooldown(s, spec.id) THEN FALSE
  ELSE IF spec.max_activations # 0
            /\ getSpecActivationCount(s, spec.id) >= spec.max_activations THEN FALSE
  ELSE IF c.conversation_length_min # 0
            /\ context.conversationLength < c.conversation_length_min THEN FALSE
  ELSE IF c.conversation_length_max # 0
            /\ context.conversationLength > c.conversation_length_max THEN FALSE
  ELSE IF c.context_files_min # 0
            /\ context.contextFilesCount < c.context_files_min THEN FALSE
  ELSE \E i \in DOMAIN spec.triggers : TriggerFires(s, spec.triggers[i], context)

\* spec.triggers.forEach(trigger => spec.actions.forEach(action => ...)), from
\* the k-th pair on
RECURSIVE RunPairs(_, _, _)
RunPairs(s, spec, k) ==
  IF k > Len(spec.triggers) * Len(spec.actions) THEN s
  ELSE LET trigger == spec.triggers[((k - 1) \div Len(spec.actions)) + 1]
           action == spec.actions[((k - 1) % Len(spec.actions)) + 1]
           recorded == recordActivation(s, spec.id, trigger, action)
       IN RunPairs(IF action.type = "reminder"
                   THEN createReminder(recorded, spec.id, action.priority, 0)
                   ELSE recorded,
                   spec, k + 1)

\* Object.values(currentState.specs).forEach(spec => ...), from the i-th spec on
RECURSIVE EvaluateFrom(_, _, _, _)
EvaluateFrom(s, specs, context, i) ==
  IF i > Len(specs) THEN s
  ELSE EvaluateFrom(IF ~specs[i].enabled \/ ~shouldActivateSpec(s, specs[i], context)
                    THEN s ELSE RunPairs(s, specs[i], 1),
                    specs, context, i + 1)

\* evaluateSpecs(context): the store afterwards
evaluateSpecs(s, context) == EvaluateFrom(s, s.specs, context, 1)

\* A call of the steering store, recorded with its arguments
SteeringCall(msg, threw) ==
  [last EXCEPT !.channel = "steering", !.threw = threw,
               !.event = [id |-> NoId, session_id |-> NoSession, msg |-> msg]]

SteeringCreateSpec(name) ==
  /\ last' = SteeringCall([type |-> "createSpec"], FALSE)
  /\ steering' = createSpec(steering, name)
  /\ UNCHANGED hookState

SteeringUpdateSpec(id, updates) ==
  /\ last' = SteeringCall([type |-> "updateSpec", specId |-> id], FALSE)
  /\ steering' = updateSpec(steering, id, updates)
  /\ UNCHANGED hookState

SteeringEvaluateSpecs(context) ==
  /\ last' = SteeringCall([type |-> "evaluateSpecs", context |-> context], FALSE)
  /\ steering' = evaluateSpecs(steering, context)
  /\ UNCHANGED hookState

SteeringCreateReminder(specId, priority, scheduledFor) ==
  /\ last' = SteeringCall([type |-> "createReminder"], FALSE)
  /\ steering' = createReminder(steering, specId, priority, scheduledFor)
  /\ UNCHANGED hookState

SteeringDismissReminder(id) ==
  /\ last' = SteeringCall([type |-> "dismissReminder", reminderId |-> id], FALSE)
  /\ steering' = dismissReminder(steering, id)
  /\ UNCHANGED hookState

SteeringCleanupExpiredReminders ==
  /\ last' = SteeringCall([type |-> "cleanupExpiredReminders"], CleanupThrows(steering))
  /\ steering' = IF CleanupThrows(steering) THEN steering
                 ELSE cleanupExpiredReminders(steering)
  /\ UNCHANGED hookState

\* time passes between two calls
SteeringTick ==
  /\ last' = SteeringCall([type |-> "tick"], FALSE)
  /\ steering' = [steering EXCEPT !.now = @ + 1]
  /\ UNCHANGED hookState

-----------------------------------------------------------------------------
\* The state after the hook is mounted for a session: the conversation may or
\* may not be in the store yet (addMessageToStore provides for both).

InitFor(id) ==
  /\ sessionId = id
  /\ \E present \in BOOLEAN :
       /\ conversations =
            [c \in ConversationIds |->
               IF c = id /\ present
               THEN [exists |-> TRUE, title |-> <<"New Conversation">>, messages |-> <<>>,
                     isLoading |-> FALSE, codexSessionId |-> Unset, resumePath |-> Unset]
               ELSE NoConversation]
       /\ conversationsAtMount = IF present THEN {id} ELSE {}
  /\ hasStopCallback \in BOOLEAN
  /\ streamController = IdleController
  /\ currentStreamingMessageId = NoId
  /\ currentCommandMessageId = NoId
  /\ currentCommandInfo = NoCommandInfo
  /\ processedEventIds = <<>>
  /\ uid = 0
  /\ stopSignals = 0
  /\ lastTurnDiffRef = Unset
  /\ turnDiffs = [c \in ConversationIds |-> Unset]
  /\ turnDiffPublishes = 0
  /\ lookups = {}
  /\ mounted = TRUE
  /\ steering = NoSteering
  /\ last = NoLast

\* the hook mounted for a session whose id carries the synthetic prefix, as
\* createConversation makes them
Init == InitFor(HookSession)

-----------------------------------------------------------------------------
\* Events the backend sends, from small sets

Event(id, session_id, msg) == [id |-> id, session_id |-> session_id, msg |-> msg]

Deltas == {<<>>, <<"a">>, <<"b">>}
Messages == {<<>>, <<"a", "b">>}
Reasons == {<<>>, <<"interrupted">>}
Commands == {<< <<"ls">>, <<"-la">> >>}
Cwd == <<"/tmp">>

\* a key not yet seen, while the run's budget of keys lasts
Fresh(event, budget) ==
  /\ ~ProcessedHas(processedEventIds, EventKey(event))
  /\ Len(processedEventIds) < budget

\* every event of the streaming scenario is delivered once, on the structured channel
Structured(event) == Fresh(event, MaxEvents) /\ CodexEvents(event)

TaskStarted ==
  \E id \in EventIds : Structured(Event(id, BareSession, [type |-> "task_started"]))

TaskComplete ==
  \E id \in EventIds : Structured(Event(id, BareSession, [type |-> "task_complete"]))

TurnComplete ==
  \E id \in EventIds : Structured(Event(id, BareSession, [type |-> "turn_complete"]))

AgentMessage ==
  \E id \in EventIds, m \in Messages :
    Structured(Event(id, BareSession, [type |-> "agent_message", message |-> m]))

AgentMessageDelta ==
  \E id \in EventIds, d \in Deltas :
    Structured(Event(id, BareSession, [type |-> "agent_message_delta", delta |-> d]))

ErrorEvent ==
  \E id \in EventIds :
    Structured(Event(id, BareSession, [type |-> "error", message |-> <<"boom">>]))

TurnAborted ==
  \E id \in EventIds, r \in Reasons :
    Structured(Event(id, BareSession, [type |-> "turn_aborted", reason |-> r]))

ShutdownComplete ==
  \E id \in EventIds : Structured(Event(id, BareSession, [type |-> "shutdown_complete"]))

ExecCommandBegin ==
  \E id \in EventIds, c \in Commands :
    Structured(Event(id, BareSession,
                     [type |-> "exec_command_begin", command |-> c, cwd |-> Cwd]))

\* the streaming life cycle of one session
Next ==
  \/ TaskStarted
  \/ TaskComplete
  \/ TurnComplete
  \/ AgentMessage
  \/ AgentMessageDelta
  \/ ErrorEvent
  \/ TurnAborted
  \/ ShutdownComplete
  \/ ExecCommandBegin

Spec == Init /\ [][Next]_vars

-----------------------------------------------------------------------------
\* Command execution: begin, end with every outcome, abort

ExitCodes == {0, 1}
Outputs == {<<>>, <<Space>>, <<"a.txt", NL>>}
ErrorOutputs == {<<>>, <<"denied">>}

ExecBegin ==
  \E id \in EventIds, c \in Commands :
    Structured(Event(id, BareSession,
                     [type |-> "exec_command_begin", command |-> c, cwd |-> Cwd]))

ExecEnd ==
  \E id \in EventIds, x \in ExitCodes, out \in Outputs, err \in ErrorOutputs :
    Structured(Event(id, BareSession,
                     [type |-> "exec_command_end", exit_code |-> x, stdout |-> out,
                      stderr |-> err]))

ExecAborted ==
  \E id \in EventIds :
    Structured(Event(id, BareSession, [type |-> "turn_aborted", reason |-> <<>>]))

NextExec == ExecBegin \/ ExecEnd \/ ExecAborted

SpecExec == Init /\ [][NextExec]_vars

-----------------------------------------------------------------------------
\* Delivery: the same logical event may arrive on both channels, with or
\* without a session id; a redelivery is always possible, a new key only while
\* the budget lasts

DeliverySessions == {NoSession, BareSession}

DeliveryMsgs ==
  {[type |-> "exec_approval_request", command |-> << <<"rm">>, <<"x">> >>, cwd |-> Cwd],
   [type |-> "patch_approval_request", files |-> << <<"a.ts">> >>],
   [type |-> "apply_patch_approval_request", reason |-> <<"fix">>,
    changes |-> << [file |-> <<"a.ts">>, content |-> <<"x">>] >>],
   [type |-> "agent_message_delta", delta |-> <<"a">>],
   [type |-> "exec_command_begin", command |-> << <<"ls">> >>, cwd |-> Cwd]}

Deliverable(event) ==
  \/ ProcessedHas(processedEventIds, EventKey(event))
  \/ Len(processedEventIds) < MaxDeliveries

DeliverStructured ==
  \E id \in EventIds, sid \in DeliverySessions, msg \in DeliveryMsgs :
    /\ Deliverable(Event(id, sid, msg))
    /\ CodexEvents(Event(id, sid, msg))

DeliverRaw ==
  \E id \in EventIds, sid \in DeliverySessions, msg \in DeliveryMsgs :
    LET rawEvent == [type |-> msg.type, session_id |-> sid,
                     data |-> [kind |-> "object", id |-> id, msg |-> msg]]
    IN /\ Deliverable(ConvertRaw(rawEvent, id))
       /\ CodexRawEvents(rawEvent, id)

NextDelivery == DeliverStructured \/ DeliverRaw

SpecDelivery == Init /\ [][NextDelivery]_vars

-----------------------------------------------------------------------------
\* Flood: a long run of telemetry events with fresh ids, each possibly
\* redelivered, to take the deduplication set past its limit

FloodEvent(n) == Event(EventId(n), BareSession, [type |-> "token_count"])

\* the id after the newest key of the set
NextFloodId ==
  IF processedEventIds = <<>> THEN 1
  ELSE processedEventIds[Len(processedEventIds)][1].n + 1

FloodFresh ==
  /\ NextFloodId <= MaxFlood
  /\ CodexEvents(FloodEvent(NextFloodId))

\* the oldest and the newest key of the set, delivered again
FloodRepeat ==
  /\ processedEventIds # <<>>
  /\ \E n \in {processedEventIds[1][1].n, NextFloodId - 1} : CodexEvents(FloodEvent(n))

NextFlood == FloodFresh \/ FloodRepeat

SpecFlood == Init /\ [][NextFlood]_vars

-----------------------------------------------------------------------------
\* Routing: events of this session under both spellings of its id, of another
\* session, and without a session id, for a hook whose own id is spelled
\* either way

\* distinct event keys one run of the routing scenario may insert
MaxRouted == 2

RoutedSessions == {NoSession, BareSession, HookSession, OtherSession, "codex-event-s2"}

DiffA == <<"diff-a">>
DiffB == <<"diff-b">>
Handle == <<"uuid-1">>

RoutedMsgs ==
  {[type |-> "task_started"],
   [type |-> "agent_message_delta", delta |-> <<"a">>],
   [type |-> "exec_command_begin", command |-> << <<"ls">> >>, cwd |-> Cwd],
   [type |-> "turn_diff", unified_diff |-> DiffA],
   [type |-> "session_configured", session_id |-> Handle]}

InitRouting == \E id \in {HookSession, BareSession} : InitFor(id)

RouteEvent ==
  \E id \in {EventId(1)}, sid \in RoutedSessions, msg \in RoutedMsgs :
    /\ Fresh(Event(id, sid, msg), MaxRouted)
    /\ CodexEvents(Event(id, sid, msg))

RouteRedelivery ==
  \E i \in DOMAIN processedEventIds, msg \in RoutedMsgs :
    /\ msg.type = processedEventIds[i][2]
    /\ CodexEvents(Event(processedEventIds[i][1], processedEventIds[i][3], msg))

NextRouting == RouteEvent \/ RouteRedelivery

SpecRouting == InitRouting /\ [][NextRouting]_vars

-----------------------------------------------------------------------------
\* Resume metadata: session_configured, the look-up it starts settling at any
\* later time, and other events in between

\* distinct event keys one run of the resume scenario may insert
MaxResume == 3

Handles == {Handle, <<"uuid-2">>}
RolloutPath == <<"/sessions/rollout-1.jsonl">>

ResumeConfigured ==
  \E id \in EventIds, handle \in Handles \cup {<<>>} :
    /\ Fresh(Event(id, BareSession, [type |-> "session_configured", session_id |-> handle]),
             MaxResume)
    /\ CodexEvents(Event(id, BareSession,
                         [type |-> "session_configured", session_id |-> handle]))

ResumeOtherEvent ==
  \E id \in EventIds, msg \in {[type |-> "task_started"],
                                [type |-> "agent_message_delta", delta |-> <<"a">>]} :
    /\ Fresh(Event(id, BareSession, msg), MaxResume)
    /\ CodexEvents(Event(id, BareSession, msg))

ResumeLookupResolves ==
  \E lookup \in lookups, path \in {RolloutPath, Unset} : LookupResolves(lookup, path)

ResumeLookupRejects == \E lookup \in lookups : LookupRejects(lookup)

NextResume ==
  \/ ResumeConfigured
  \/ ResumeOtherEvent
  \/ ResumeLookupResolves
  \/ ResumeLookupRejects

SpecResume == Init /\ [][NextResume]_vars

-----------------------------------------------------------------------------
\* Titles: conversations made by the chat view or by an event, entries of every
\* role added in any order, and the user's rename

\* entries one run of the title scenario may add
MaxTitleEntries == 3

\* 51 characters, one more than the cut
LongText == [i \in 1..(TitleMax + 1) |-> "x"]

TitleContents == {<<Space, "h", "i", Space>>, LongText}
UserTitles == {<<"My title">>, <<"New Conversation">>}

TitleCreate ==
  /\ ~HookConversation.exists
  /\ StoreCreateConversation

TitleAddMessage ==
  \E role \in {"user", "assistant"}, content \in TitleContents :
    /\ HookConversation.exists
    /\ Len(Transcript) < MaxTitleEntries
    /\ StoreAddMessage(role, content)

TitleRename == \E title \in UserTitles : StoreUpdateConversationTitle(title)

TitleEvent ==
  /\ Len(Transcript) < MaxTitleEntries
  /\ \E id \in EventIds :
       /\ ~ProcessedHas(processedEventIds,
                        EventKey(Event(id, BareSession, [type |-> "error", message |-> <<"boom">>])))
       /\ CodexEvents(Event(id, BareSession, [type |-> "error", message |-> <<"boom">>]))

NextTitle == TitleCreate \/ TitleAddMessage \/ TitleRename \/ TitleEvent

SpecTitle == Init /\ [][NextTitle]_vars

-----------------------------------------------------------------------------
\* Malformed input: raw payloads of every shape, a structured payload without
\* msg, events of a kind the switch does not know, among well-formed events

\* distinct event keys one run of the malformed-input scenario may insert
MaxMalformed == 3

UnknownMsg == [type |-> "not_a_kind"]
UntypedMsg == [type |-> "undefined"]
StringMsg == [kind |-> "string", type |-> "undefined"]

RawShapes ==
  {[type |-> "x", session_id |-> BareSession],
   [type |-> "x", session_id |-> BareSession, data |-> [kind |-> "null"]],
   [type |-> "x", session_id |-> BareSession, data |-> [kind |-> "string"]],
   [type |-> "x", session_id |-> BareSession, data |-> [kind |-> "object"]],
   [type |-> "x", session_id |-> BareSession,
    data |-> [kind |-> "object", id |-> EventId(1)]],
   [type |-> "x", session_id |-> BareSession,
    data |-> [kind |-> "object", msg |-> StringMsg]],
   [type |-> "x", session_id |-> BareSession,
    data |-> [kind |-> "object", id |-> EventId(1), msg |-> UntypedMsg]],
   [type |-> "x", session_id |-> BareSession,
    data |-> [kind |-> "object", id |-> EventId(1), msg |-> UnknownMsg]]}

MalformedRaw ==
  \E rawEvent \in RawShapes, now \in RawIds :
    /\ IF RawTypeThrows(rawEvent) THEN TRUE
       ELSE Fresh(ConvertRaw(rawEvent, now), MaxMalformed)
    /\ CodexRawEvents(rawEvent, now)

MalformedStructured == CodexEventsMalformed

UnknownKind ==
  \E id \in EventIds :
    /\ Fresh(Event(id, BareSession, UnknownMsg), MaxMalformed)
    /\ CodexEvents(Event(id, BareSession, UnknownMsg))

WellFormed ==
  \E id \in EventIds, msg \in {[type |-> "task_started"],
                                [type |-> "agent_message_delta", delta |-> <<"a">>]} :
    /\ Fresh(Event(id, BareSession, msg), MaxMalformed)
    /\ CodexEvents(Event(id, BareSession, msg))

NextMalformed == MalformedRaw \/ MalformedStructured \/ UnknownKind \/ WellFormed

SpecMalformed == Init /\ [][NextMalformed]_vars

-----------------------------------------------------------------------------
\* Teardown: events of the mounted session, a switch to the other session, and
\* the unmount

\* events one mount of the teardown scenario may receive
MaxMountEvents == 3

\* switches of session one run of the teardown scenario may make
MaxSwitches == 1

SwitchableSessions == {HookSession, "codex-event-s2"}

TeardownMsgs ==
  {[type |-> "turn_diff", unified_diff |-> DiffA],
   [type |-> "turn_diff", unified_diff |-> DiffB],
   [type |-> "agent_message_delta", delta |-> <<"a">>],
   [type |-> "exec_command_begin", command |-> << <<"ls">> >>, cwd |-> Cwd]}

\* the backend numbers the events of a session
MountEvent ==
  \E msg \in TeardownMsgs :
    /\ Len(processedEventIds) < MaxMountEvents
    /\ CodexEvents(Event(EventId(Len(processedEventIds) + 1), BareId(sessionId), msg))

TeardownSwitch ==
  \E id \in SwitchableSessions :
    /\ last.teardowns < MaxSwitches
    /\ SwitchSession(id)

TeardownUnmount == Unmount

NextTeardown == MountEvent \/ TeardownSwitch \/ TeardownUnmount

SpecTeardown == Init /\ [][NextTeardown]_vars

-----------------------------------------------------------------------------
\* Reasoning: agent_reasoning and agent_reasoning_raw_content on both channels,
\* carrying the canonical field, the synonym `text`, both or neither

\* distinct event keys one run of the reasoning scenario may insert
MaxReasoning == 2

\* msg with the field set, or left as it is when the payload does not carry it
WithField(msg, field, value) ==
  IF value = Unset THEN msg
  ELSE [f \in DOMAIN msg \cup {field} |-> IF f = field THEN value ELSE msg[f]]

ReasoningKinds == {"agent_reasoning", "agent_reasoning_raw_content"}

\* the field the payload of the kind is specified to carry
CanonicalField(type) == IF type = "agent_reasoning" THEN "reasoning" ELSE "content"

SynonymTexts == {Unset, <<>>, <<"synonym">>}
CanonicalTexts == {Unset, <<>>, <<"canonical">>}

ReasoningMsgs ==
  {WithField(WithField([type |-> type], "text", text), CanonicalField(type), canonical) :
     type \in ReasoningKinds, text \in SynonymTexts, canonical \in CanonicalTexts}

ReasoningStructured ==
  \E id \in EventIds, msg \in ReasoningMsgs :
    /\ Fresh(Event(id, BareSession, msg), MaxReasoning)
    /\ CodexEvents(Event(id, BareSession, msg))

ReasoningRaw ==
  \E id \in EventIds, msg \in ReasoningMsgs :
    LET rawEvent == [type |-> msg.type, session_id |-> BareSession,
                     data |-> [kind |-> "object", id |-> id, msg |-> msg]]
    IN /\ Fresh(ConvertRaw(rawEvent, id), MaxReasoning)
       /\ CodexRawEvents(rawEvent, id)

NextReasoning == ReasoningStructured \/ ReasoningRaw

SpecReasoning == Init /\ [][NextReasoning]_vars

-----------------------------------------------------------------------------
\* Suppressed kinds: a turn that is started, streams and runs a command, with
\* events of the suppressed kinds and of an unknown kind among its events, on
\* either channel

\* suppressed or unknown events one run of the scenario may receive
MaxSuppressed == 2

NoisyKinds == SuppressedKinds \cup {"not_a_kind"}

NoisyMsgs ==
  {[type |-> k, text |-> <<"x">>, delta |-> <<"y">>, chunk |-> <<"z">>] : k \in NoisyKinds}

NoisyCount ==
  Cardinality({i \in DOMAIN processedEventIds : processedEventIds[i][2] \in NoisyKinds})

TurnMsgs ==
  {[type |-> "task_started"],
   [type |-> "agent_message_delta", delta |-> <<"a">>],
   [type |-> "exec_command_begin", command |-> << <<"ls">> >>, cwd |-> Cwd]}

SuppressedTurn ==
  \E msg \in TurnMsgs :
    /\ ~ProcessedHas(processedEventIds, EventKey(Event(EventId(1), BareSession, msg)))
    /\ CodexEvents(Event(EventId(1), BareSession, msg))

SuppressedStructured ==
  \E msg \in NoisyMsgs :
    /\ NoisyCount < MaxSuppressed
    /\ ~ProcessedHas(processedEventIds, EventKey(Event(EventId(2), BareSession, msg)))
    /\ CodexEvents(Event(EventId(2), BareSession, msg))

SuppressedRaw ==
  \E msg \in {m \in NoisyMsgs : m.type \in {"agent_reasoning_delta", "token_count"}} :
    LET rawEvent == [type |-> msg.type, session_id |-> BareSession,
                     data |-> [kind |-> "object", id |-> EventId(2), msg |-> msg]]
    IN /\ NoisyCount < MaxSuppressed
       /\ ~ProcessedHas(processedEventIds, EventKey(ConvertRaw(rawEvent, EventId(2))))
       /\ CodexRawEvents(rawEvent, EventId(2))

NextSuppressed == SuppressedTurn \/ SuppressedStructured \/ SuppressedRaw

SpecSuppressed == Init /\ [][NextSuppressed]_vars

-----------------------------------------------------------------------------
\* The transcript under events and store calls: a session that streams and
\* runs a command, while the user cuts a transcript for edit-and-resend,
\* deletes a conversation, or opens one from the history list

\* events one run of the transcript scenario may receive
MaxTranscriptEvents == 3

\* store calls of the user one run of the transcript scenario may see
MaxStoreCalls == 2

HistorySession == "codex-event-s2"

HistoryEntry(n) ==
  conversationMessage(ChatMessage(GeneratedId("history", n), "user", <<>>, <<"old">>, "", ""))

Histories ==
  {[id |-> HookSession, title |-> <<"Old">>, messages |-> <<HistoryEntry(1)>>,
    filePath |-> <<"/r/1.jsonl">>],
   [id |-> HistorySession, title |-> <<"Older">>,
    messages |-> <<HistoryEntry(1), HistoryEntry(2)>>, filePath |-> Unset]}

TranscriptMsgs ==
  {[type |-> "agent_message_delta", delta |-> <<"a">>],
   [type |-> "agent_message_delta", delta |-> <<"b">>],
   [type |-> "exec_command_begin", command |-> << <<"ls">> >>, cwd |-> Cwd],
   [type |-> "exec_command_end", exit_code |-> 0, stdout |-> <<"x">>]}

\* ids of the entries of every conversation, and one no entry has
KnownIds ==
  UNION {{conversations[c].messages[i].id : i \in DOMAIN conversations[c].messages} :
           c \in ConversationIds}
    \cup {GeneratedId("history", 9)}

TranscriptEvent ==
  \E id \in EventIds, msg \in TranscriptMsgs :
    /\ Fresh(Event(id, BareSession, msg), MaxTranscriptEvents)
    /\ CodexEvents(Event(id, BareSession, msg))

TranscriptTruncate ==
  \E c \in {HookSession, HistorySession}, m \in KnownIds :
    /\ last.calls < MaxStoreCalls
    /\ StoreTruncateMessagesFrom(c, m)

TranscriptDelete ==
  \E c \in {HookSession, HistorySession} :
    /\ last.calls < MaxStoreCalls
    /\ StoreDeleteConversation(c)

TranscriptSelectHistory ==
  \E conversation \in Histories :
    /\ last.calls < MaxStoreCalls
    /\ StoreSelectHistoryConversation(conversation)

NextTranscript ==
  \/ TranscriptEvent
  \/ TranscriptTruncate
  \/ TranscriptDelete
  \/ TranscriptSelectHistory

SpecTranscript == Init /\ [][NextTranscript]_vars

-----------------------------------------------------------------------------
\* Steering specs: specs are created and given their triggers, actions and
\* max_activations once, and are evaluated against the contexts of a
\* conversation as time passes

\* specs one run of the steering scenario may create
MaxSpecs == 2

\* the latest reading of the clock in the steering scenarios
MaxClock == 2

InitSteering ==
  /\ InitFor(HookSession)
  /\ ~hasStopCallback
  /\ conversationsAtMount = {HookSession}

MessageCountTrigger == [type |-> "message_count", count |-> 1]
PlanStepTrigger == [type |-> "plan_step", stepStatus |-> "completed"]
ReminderAction == [type |-> "reminder", priority |-> "medium"]
SuggestionAction == [type |-> "suggestion"]

SpecConfigs ==
  {[triggers |-> <<MessageCountTrigger>>, actions |-> <<ReminderAction>>,
    max_activations |-> 2],
   [triggers |-> <<MessageCountTrigger>>, actions |-> <<SuggestionAction>>,
    max_activations |-> 2, cooldown_ms |-> 1],
   [triggers |-> <<MessageCountTrigger, PlanStepTrigger>>,
    actions |-> <<ReminderAction, SuggestionAction>>, max_activations |-> 1]}

Contexts ==
  {[conversationLength |-> n, contextFilesCount |-> 0, lastMessageTimestamp |-> 1,
    currentTimestamp |-> steering.now, lastPlanStep |-> step,
    recentContextChange |-> FALSE] : n \in {0, 1}, step \in {"none", "completed"}}

ActivationsCreate ==
  /\ Len(steering.specs) < MaxSpecs
  /\ SteeringCreateSpec(<<"spec">>)

ActivationsConfigure ==
  \E i \in DOMAIN steering.specs, config \in SpecConfigs :
    /\ steering.specs[i].triggers = <<>>
    /\ SteeringUpdateSpec(steering.specs[i].id, config)

ActivationsEvaluate == \E context \in Contexts : SteeringEvaluateSpecs(context)

ActivationsTick == steering.now < MaxClock /\ SteeringTick

NextActivations ==
  \/ ActivationsCreate
  \/ ActivationsConfigure
  \/ ActivationsEvaluate
  \/ ActivationsTick

SpecActivations == InitSteering /\ [][NextActivations]_vars

-----------------------------------------------------------------------------
\* One correlation id, several payloads: the backend reuses an id for the
\* fragments of a message or for two approval requests of a session

\* distinct event keys one run of the same-key scenario may insert
MaxSameKey == 2

SameKeyMsgs ==
  {[type |-> "agent_message_delta", delta |-> <<"a">>],
   [type |-> "agent_message_delta", delta |-> <<"b">>],
   [type |-> "exec_approval_request", command |-> << <<"ls">> >>, cwd |-> Cwd],
   [type |-> "exec_approval_request", command |-> << <<"rm">>, <<"x">> >>, cwd |-> Cwd]}

SameKeyStructured ==
  \E id \in EventIds, msg \in SameKeyMsgs :
    /\ \/ ProcessedHas(processedEventIds, EventKey(Event(id, BareSession, msg)))
       \/ Len(processedEventIds) < MaxSameKey
    /\ CodexEvents(Event(id, BareSession, msg))

SameKeyRaw ==
  \E id \in EventIds, msg \in SameKeyMsgs :
    LET rawEvent == [type |-> msg.type, session_id |-> BareSession,
                     data |-> [kind |-> "object", id |-> id, msg |-> msg]]
    IN /\ \/ ProcessedHas(processedEventIds, EventKey(ConvertRaw(rawEvent, id)))
          \/ Len(processedEventIds) < MaxSameKey
       /\ CodexRawEvents(rawEvent, id)

NextSameKey == SameKeyStructured \/ SameKeyRaw

SpecSameKey == Init /\ [][NextSameKey]_vars

-----------------------------------------------------------------------------
\* Overlapping commands: the backend may begin a command before the one before
\* it has ended, end a command twice, or abort the turn in between

\* events one run of the overlapping-commands scenario may receive
MaxOverlap == 4

OverlapMsgs ==
  {[type |-> "exec_command_begin", command |-> << <<"ls">> >>, cwd |-> Cwd],
   [type |-> "exec_command_begin", command |-> << <<"pwd">> >>, cwd |-> Cwd],
   [type |-> "exec_command_end", exit_code |-> 0, stdout |-> <<"x">>],
   [type |-> "exec_command_end", exit_code |-> 1, stdout |-> <<>>, stderr |-> <<"e">>],
   [type |-> "turn_aborted"]}

OverlapBegin ==
  \E id \in EventIds, msg \in {m \in OverlapMsgs : m.type = "exec_command_begin"} :
    /\ Fresh(Event(id, BareSession, msg), MaxOverlap)
    /\ CodexEvents(Event(id, BareSession, msg))

OverlapEnd ==
  \E id \in EventIds, msg \in {m \in OverlapMsgs : m.type = "exec_command_end"} :
    /\ Fresh(Event(id, BareSession, msg), MaxOverlap)
    /\ CodexEvents(Event(id, BareSession, msg))

OverlapAbort ==
  \E id \in EventIds :
    /\ Fresh(Event(id, BareSession, [type |-> "turn_aborted"]), MaxOverlap)
    /\ CodexEvents(Event(id, BareSession, [type |-> "turn_aborted"]))

NextOverlap == OverlapBegin \/ OverlapEnd \/ OverlapAbort

SpecOverlap == Init /\ [][NextOverlap]_vars

-----------------------------------------------------------------------------
\* Reminders: created at once or scheduled, dismissed by the panel with the id
\* of a reminder or with an id that names none, and cleaned up by the timer

\* reminders one run of the reminder scenario may create
MaxReminders == 2

\* the ids a caller may pass: those handed out so far and one never handed out
ReminderIds == {GeneratedId("steer", n) : n \in 1..MaxReminders} \cup {GeneratedId("stale", 0)}

RemindersCreate ==
  \E priority \in {"low", "high"}, scheduledFor \in {0, MaxClock} :
    /\ steering.ids < MaxReminders
    /\ SteeringCreateReminder(GeneratedId("spec", 1), priority, scheduledFor)

RemindersDismiss == \E id \in ReminderIds : SteeringDismissReminder(id)

RemindersCleanup == SteeringCleanupExpiredReminders

RemindersTick == steering.now < MaxClock /\ SteeringTick

NextReminders ==
  \/ RemindersCreate
  \/ RemindersDismiss
  \/ RemindersCleanup
  \/ RemindersTick

SpecReminders == InitSteering /\ [][NextReminders]_vars

-----------------------------------------------------------------------------
\* Reading the record of the latest listener call

LastType == last.event.msg.type

\* the latest event went through the switch: not a duplicate, and routed here
Handled == last.channel # "none" /\ ~last.threw /\ ~last.dup /\ last.routed

ApprovalKinds ==
  {"exec_approval_request", "patch_approval_request", "apply_patch_approval_request"}

TerminalKinds == {"task_complete", "turn_complete", "error", "turn_aborted"}

Range(seq) == {seq[i] : i \in DOMAIN seq}

EntriesWithId(id) == {i \in DOMAIN Transcript : Transcript[i].id = id}

LastEntry == Transcript[Len(Transcript)]

-----------------------------------------------------------------------------
\* C1. Idempotent delivery: an event whose (id, msg.type, session_id) key is
\* still in the recently-seen set changes nothing: the conversations (transcript
\* and loading flag), the stream state and the exec-tracking state are after the
\* second delivery what they were before it, on either channel.
C1_IdempotentDelivery ==
  [][last'.dup =>
       UNCHANGED <<conversations, streamController, currentStreamingMessageId,
                   currentCommandMessageId, currentCommandInfo>>]_vars

\* an approval request delivered again on the raw channel, one approval entry
C1_Witness ==
  /\ last.dup
  /\ last.routed
  /\ last.channel = "raw"
  /\ LastType = "exec_approval_request"
  /\ Cardinality({i \in DOMAIN Transcript : Transcript[i].role = "approval"}) = 1

C3_StreamingConcatenation ==
  (Handled /\ LastType = "agent_message_delta" /\ Truthy(last.event.msg, "delta")) =>
    /\ StreamContent = last.content \o last.event.msg.delta
    /\ Len(StreamContent) >= Len(last.content)

\* C4. Supersession: an agent_message with text that arrives while a stream is
\* open appends no entry, and the transcript holds exactly one entry for the
\* streamed message: an assistant entry that is not marked streaming.
C4_Supersession ==
  (Handled /\ LastType = "agent_message" /\ Truthy(last.event.msg, "message")
     /\ last.streamId # NoId) =>
    /\ Len(Transcript) = last.len
    /\ Cardinality(EntriesWithId(last.streamId)) = 1
    /\ \A i \in EntriesWithId(last.streamId) :
         Transcript[i].role = "assistant" /\ Transcript[i].isStreaming = FALSE

\* two deltas, then the complete message
C4_Witness ==
  /\ Handled
  /\ LastType = "agent_message"
  /\ Truthy(last.event.msg, "message")
  /\ last.streamId # NoId
  /\ Len(last.content) >= 2

\* C5. In every reachable state every conversation has at most one entry with
\* isStreaming = true.
C5_AtMostOneStreaming ==
  \A c \in ConversationIds :
    Cardinality({i \in DOMAIN conversations[c].messages :
                   conversations[c].messages[i].isStreaming}) <= 1

\* a second turn: an earlier stream has ended and a later delta has opened another
C5_Witness ==
  /\ currentStreamingMessageId # NoId
  /\ Cardinality({i \in DOMAIN Transcript :
                    Transcript[i].eventType = "agent_message_delta"}) >= 2

\* C6. Approval id stability: a processed exec_approval_request,
\* patch_approval_request or apply_patch_approval_request appends exactly one
\* entry, of role approval, whose id and whose approvalRequest.id are the
\* event's id.
C6_ApprovalIdStability ==
  (Handled /\ LastType \in ApprovalKinds) =>
    /\ Len(Transcript) = last.len + 1
    /\ LastEntry.role = "approval"
    /\ LastEntry.id = last.event.id
    /\ LastEntry.approvalRequest.id = last.event.id

\* an apply_patch_approval_request has been processed
C6_Witness ==
  /\ Handled
  /\ LastType = "apply_patch_approval_request"
  /\ LastEntry.id = last.event.id
  /\ LastEntry.approvalRequest.type = "apply_patch"

\* a fenced block, as the claims about command output describe it
FencedBlock(text) == <<NL, Fence, NL>> \o text \o <<NL, Fence>>

HasText(text) == \E i \in DOMAIN text : text[i] \notin {Space, NL}

\* the title of a finished command entry carries the glyph that goes with the
\* exit code, and the exit code when it is not 0
TitleShowsExit(title, exit_code) ==
  IF exit_code = 0
  THEN GlyphOk \in Range(title) /\ GlyphFail \notin Range(title)
  ELSE /\ GlyphFail \in Range(title)
       /\ GlyphOk \notin Range(title)
       /\ ToString(exit_code) \in Range(title)

\* an exec_command_end has been processed while a command entry was remembered
ExecEnded ==
  Handled /\ LastType = "exec_command_end" /\ last.commandId # NoId

\* C7, as claimed. Exec round-trip: the exec_command_end adds no entry; the
\* remembered entry's title shows the exit status, its content is the fenced
\* stdout block followed by the stderr block if there is stderr, and the
\* remembered pointer is cleared.
C7_ExecRoundTripAsClaimed ==
  ExecEnded =>
    /\ Len(Transcript) = last.len
    /\ Cardinality(EntriesWithId(last.commandId)) = 1
    /\ \A i \in EntriesWithId(last.commandId) :
         /\ TitleShowsExit(Transcript[i].title, last.event.msg.exit_code)
         /\ Transcript[i].content =
              FencedBlock(last.event.msg.stdout) \o
                (IF HasText(last.event.msg.stderr)
                 THEN <<NL, NL, "Errors:">> \o FencedBlock(last.event.msg.stderr)
                 ELSE <<>>)
    /\ currentCommandMessageId = NoId
    /\ ~currentCommandInfo.set

\* C7, amended: as above, but the stdout block is there only when stdout has
\* text other than white space, and the blank line that separates the two blocks
\* only when both are there.
C7_ExecRoundTrip ==
  ExecEnded =>
    /\ Len(Transcript) = last.len
    /\ Cardinality(EntriesWithId(last.commandId)) = 1
    /\ \A i \in EntriesWithId(last.commandId) :
         /\ TitleShowsExit(Transcript[i].title, last.event.msg.exit_code)
         /\ Transcript[i].content =
              (IF HasText(last.event.msg.stdout)
               THEN FencedBlock(last.event.msg.stdout) ELSE <<>>)
              \o (IF HasText(last.event.msg.stdout) /\ HasText(last.event.msg.stderr)
                  THEN <<NL, NL>> ELSE <<>>)
              \o (IF HasText(last.event.msg.stderr)
                  THEN <<"Errors:">> \o FencedBlock(last.event.msg.stderr) ELSE <<>>)
    /\ currentCommandMessageId = NoId
    /\ ~currentCommandInfo.set

\* a failed command with stderr only has been completed
C7_Witness ==
  /\ ExecEnded
  /\ last.event.msg.exit_code = 1
  /\ ~HasText(last.event.msg.stdout)
  /\ HasText(last.event.msg.stderr)
  /\ Len(Transcript) = 1
  /\ GlyphFail \in Range(LastEntry.title)

\* C8. Abort cleanup: once a turn_aborted has been processed the loading flag
\* is false, the stream controller is Idle with no current streaming entry id,
\* the exec-tracking pointer is empty, exactly one entry has been appended (a
\* system entry that describes the abort), and the stop-streaming callback, when
\* one was passed, has been called once.
C8_AbortCleanup ==
  (Handled /\ LastType = "turn_aborted") =>
    /\ ~Loading
    /\ streamController.state = "Idle"
    /\ currentStreamingMessageId = NoId
    /\ currentCommandMessageId = NoId
    /\ ~currentCommandInfo.set
    /\ Len(Transcript) = last.len + 1
    /\ LastEntry.role = "system"
    /\ LastEntry.eventType = "turn_aborted"
    /\ GlyphStop \in Range(LastEntry.title)
    /\ stopSignals = last.stops + (IF hasStopCallback THEN 1 ELSE 0)

\* task_started, a delta, then the abort, with the callback passed
C8_Witness ==
  /\ Handled
  /\ LastType = "turn_aborted"
  /\ last.loading
  /\ last.streamId # NoId
  /\ hasStopCallback
  /\ stopSignals = 1

\* C9. Consistent terminal state: right after a processed task_complete,
\* turn_complete, error or turn_aborted the loading flag is false and no stream
\* is open: the controller is Idle and there is no current streaming entry id.
C9_ConsistentTerminalState ==
  (Handled /\ LastType \in TerminalKinds) =>
    /\ ~Loading
    /\ streamController.state = "Idle"
    /\ currentStreamingMessageId = NoId

\* an error that arrived while loading, with a stream open
C9_Witness ==
  /\ Handled
  /\ LastType = "error"
  /\ last.loading
  /\ last.streamId # NoId

\* C10, as claimed. Entry ids are unique within a session's transcript.
C10_UniqueEntryIds ==
  \A i, j \in DOMAIN Transcript : i # j => Transcript[i].id # Transcript[j].id

\* the latest event names a session that is neither this one nor its alias
Foreign(event) ==
  event.session_id # NoSession /\ BareId(event.session_id) # BareId(sessionId)

\* C11. Routing isolation: an event whose session_id is neither the reducer's
\* session id nor its alias leaves every conversation (transcript, loading
\* flag, resume metadata), the stream state, the exec-tracking state, the
\* last-seen diff and the diff slots unchanged; an event without session_id is
\* processed: a task_started sets the loading flag of a conversation in the
\* store, an exec_command_begin appends its entry.
C11_RoutingIsolation ==
  [][/\ (last'.channel # "none" /\ Foreign(last'.event)) =>
          UNCHANGED <<conversations, streamController, currentStreamingMessageId,
                      currentCommandMessageId, currentCommandInfo, lastTurnDiffRef,
                      turnDiffs, lookups>>
     /\ (last'.channel # "none" /\ ~last'.dup /\ last'.event.session_id = NoSession) =>
          /\ last'.event.msg.type = "task_started" =>
               (conversations[sessionId].exists => conversations'[sessionId].isLoading)
          /\ last'.event.msg.type = "exec_command_begin" =>
               Len(conversations'[sessionId].messages) = last'.len + 1]_vars

\* an event of another session arrived when this session's transcript had an
\* entry, and added none
C11_Witness ==
  /\ last.channel # "none"
  /\ ~last.dup
  /\ Foreign(last.event)
  /\ LastType = "exec_command_begin"
  /\ last.len = 1
  /\ Len(Transcript) = 1

\* C12. Alias equivalence: an event is delivered to the reducer whenever its
\* session_id and the reducer's session id are equal once the synthetic prefix
\* is taken off, whichever of the two carries the prefix: a task_started
\* delivered so sets the loading flag, an exec_command_begin appends its entry.
C12_AliasEquivalence ==
  (/\ last.channel # "none"
   /\ ~last.dup
   /\ last.event.session_id # NoSession
   /\ BareId(last.event.session_id) = BareId(sessionId)) =>
     /\ last.routed
     /\ (LastType = "task_started" /\ HookConversation.exists) => Loading
     /\ LastType = "exec_command_begin" => Len(Transcript) = last.len + 1

\* C13. Resume metadata: once session_configured with a handle is processed
\* the conversation holds the handle; once the look-up has resolved with a path
\* it holds the handle and the path; once it has rejected or resolved with
\* nothing the handle is still held.  (For a conversation that is in the store.)
C13_ResumeMetadata ==
  /\ (Handled /\ LastType = "session_configured" /\ Truthy(last.event.msg, "session_id")
        /\ HookConversation.exists) =>
       HookConversation.codexSessionId = last.event.msg.session_id
  /\ (last.channel = "lookup" /\ LastType = "lookup_resolved"
        /\ last.event.msg.path # Unset /\ HookConversation.exists) =>
       /\ HookConversation.resumePath = last.event.msg.path
       /\ HookConversation.codexSessionId # Unset
  /\ (last.channel = "lookup" /\ HookConversation.exists
        /\ (LastType = "lookup_rejected" \/ last.event.msg.path = Unset)) =>
       HookConversation.codexSessionId # Unset

\* the title the claims describe: the first user entry's content, trimmed, cut
\* to 50 characters and "..." when longer
DerivedTitle(content) ==
  IF Len(Trim(content)) > 50
  THEN SubSeq(Trim(content), 1, 50) \o <<".", ".", ".">>
  ELSE Trim(content)

UserEntries == {i \in DOMAIN Transcript : Transcript[i].role = "user"}

\* the latest call added an entry to the transcript through addMessage
Added == last.channel # "none" /\ Len(Transcript) = last.len + 1

\* C14. Title auto-derivation: the addMessage that adds the first user entry
\* of a session sets the title to that entry's content (trimmed, cut to 50
\* characters plus "..."); no addMessage after that one changes the title; and
\* a title set by the user is never changed by addMessage.
C14_TitleDerivation ==
  /\ (Added /\ ~last.renamed /\ UserEntries = {Len(Transcript)}) =>
       HookConversation.title = DerivedTitle(LastEntry.content)
  /\ (Added /\ UserEntries \ {Len(Transcript)} # {}) =>
       HookConversation.title = last.title
  /\ (Added /\ last.renamed) => HookConversation.title = last.title

\* C15. Failure containment: no listener call ends with an exception; a
\* payload that is malformed and an event of unknown kind leave every
\* transcript and loading flag and the stream state unchanged.
C15_FailureContainment ==
  [][/\ ~last'.threw
     /\ (last'.channel \in {"raw", "structured"}
          /\ last'.event.msg.type \in {"none", "undefined", "not_a_kind"}) =>
          UNCHANGED <<conversations, streamController, currentStreamingMessageId>>]_vars

\* C16. After shutdown_complete is processed the stream controller is Idle,
\* there is no current streaming entry id, and the exec-tracking state (the
\* remembered entry id and the command info) is empty.
C16_ShutdownResets ==
  (Handled /\ LastType = "shutdown_complete") =>
    /\ streamController.state = "Idle"
    /\ currentStreamingMessageId = NoId
    /\ currentCommandMessageId = NoId
    /\ ~currentCommandInfo.set

\* C17. Teardown: when the effect is torn down (unmount or session switch)
\* the deduplication set is emptied, the stream controller is Idle with no
\* current streaming entry id, the exec-tracking state is cleared, and every
\* conversation of the store is left as it was.
C17_Teardown ==
  [][last'.channel = "teardown" =>
       /\ processedEventIds' = <<>>
       /\ streamController'.state = "Idle"
       /\ currentStreamingMessageId' = NoId
       /\ currentCommandMessageId' = NoId
       /\ ~currentCommandInfo'.set
       /\ UNCHANGED conversations]_vars

\* a session switch with keys seen, a stream open and a command running
C17_Witness ==
  /\ last.channel = "teardown"
  /\ LastType = "switch"
  /\ last.seen = 3
  /\ last.streamId # NoId
  /\ last.commandId # NoId
  /\ Len(conversations[HookSession].messages) = 2
  /\ processedEventIds = <<>>

\* C18. turn_diff de-duplication is adjacent-only and per session: a processed
\* turn_diff is published to its session's slot if and only if its diff text
\* differs from that of the turn_diff seen before it for the same session (the
\* first of a session is always published).
C18_TurnDiffAdjacentPerSession ==
  (Handled /\ LastType = "turn_diff") =>
    ((/\ turnDiffPublishes = last.publishes + 1
      /\ turnDiffs[sessionId] = Opt(last.event.msg, "unified_diff"))
     <=> last.prevDiff # Opt(last.event.msg, "unified_diff"))

\* the text the claims give a reasoning event: the canonical field's value,
\* the synonym's only when the canonical field is absent
CanonicalText(msg) ==
  IF Has(msg, CanonicalField(msg.type)) THEN msg[CanonicalField(msg.type)]
  ELSE IF Has(msg, "text") THEN msg.text
  ELSE <<>>

\* C19. Canonical field precedence: a processed agent_reasoning or
\* agent_reasoning_raw_content event, on either channel, appends one reasoning
\* entry whose content is the canonical field's value, or the synonym's when
\* the canonical field is absent; when that text is empty it appends nothing.
C19_CanonicalPrecedence ==
  (Handled /\ LastType \in ReasoningKinds) =>
    IF CanonicalText(last.event.msg) = <<>>
    THEN Len(Transcript) = last.len
    ELSE /\ Len(Transcript) = last.len + 1
         /\ LastEntry.messageType = "reasoning"
         /\ LastEntry.content = CanonicalText(last.event.msg)

\* the latest event made a streaming entry and called begin on the controller
Began ==
  /\ Handled
  /\ LastType = "agent_message_delta"
  /\ uid = last.uid + 1

\* C20. At most one open stream: begin on a controller that is Streaming
\* leaves it as it is (state, sink and buffer); the reducer calls begin only
\* on an agent_message_delta that arrives with no current streaming entry, when
\* the controller is Idle; and only such a delta takes the controller from Idle
\* to Streaming.
C20_AtMostOneOpenStream ==
  /\ streamController.state = "Streaming" =>
       begin(streamController, createStreamSink(GeneratedId("stream", uid + 1)))
         = streamController
  /\ Began => (last.streamId = NoId /\ last.ctrl.state = "Idle")
  /\ (last.channel # "none" /\ last.ctrl.state = "Idle"
        /\ streamController.state = "Streaming") =>
       (Began /\ last.streamId = NoId /\ streamController.sinkId = currentStreamingMessageId)

\* a delta that arrived with a stream open: pushed to it, no second begin
C20_Witness ==
  /\ Handled
  /\ LastType = "agent_message_delta"
  /\ last.streamId # NoId
  /\ last.ctrl.state = "Streaming"
  /\ uid = last.uid
  /\ currentStreamingMessageId = last.streamId
  /\ Len(streamController.buffer) = 2

\* content of the entry with this id in the hook's conversation, Unset when
\* the transcript has no such entry
ContentOf(id) ==
  IF EntriesWithId(id) = {} THEN Unset
  ELSE Transcript[CHOOSE i \in EntriesWithId(id) : TRUE].content

\* the latest event was a delta that found no stream open and made an entry
\* for a new one at the end of the transcript
StartedNewEntry ==
  /\ Len(Transcript) = last.len + 1
  /\ LastEntry.id = currentStreamingMessageId
  /\ LastEntry.role = "assistant"
  /\ Cardinality(EntriesWithId(LastEntry.id)) = 1

\* C21 as claimed: every agent_message processed while a stream is open, with
\* or without message text, leaves the controller Idle with no current
\* streaming entry id and the transcript as long as it was, and no later
\* agent_message_delta writes to the stream that was open.
C21_FinalizeAsClaimed ==
  /\ (Handled /\ LastType = "agent_message" /\ last.streamId # NoId) =>
       /\ streamController.state = "Idle"
       /\ currentStreamingMessageId = NoId
       /\ Len(Transcript) = last.len
  /\ (Handled /\ LastType = "agent_message_delta" /\ last.prior.by = "agent_message") =>
       /\ last.streamId # last.prior.id
       /\ last.streamId = NoId => StartedNewEntry

\* C21. Every agent_message event with message text that is processed while a
\* stream is open finalizes the stream: afterwards the controller is Idle and
\* there is no current streaming entry id, the transcript is as long as it was,
\* and the next agent_message_delta starts a new streaming entry at the end of
\* the transcript; no later delta writes to the superseded entry.
C21_FinalizeOnAgentMessage ==
  /\ (Handled /\ LastType = "agent_message" /\ Truthy(last.event.msg, "message")
        /\ last.streamId # NoId) =>
       /\ streamController.state = "Idle"
       /\ currentStreamingMessageId = NoId
       /\ Len(Transcript) = last.len
  /\ (Handled /\ LastType = "agent_message_delta" /\ last.prior.by = "agent_message"
        /\ last.prior.text) =>
       /\ last.streamId # last.prior.id
       /\ currentStreamingMessageId # last.prior.id
       /\ ContentOf(last.prior.id) = last.prior.content
       /\ last.streamId = NoId => StartedNewEntry

\* a delta, the complete message, and a delta that starts the next entry
C21_Witness ==
  /\ Handled
  /\ LastType = "agent_message_delta"
  /\ last.prior.by = "agent_message"
  /\ last.prior.text
  /\ last.prior.content # <<>>
  /\ last.streamId = NoId
  /\ Len(Transcript) = 2

\* C22. task_started sets the session's loading flag and hard-resets
\* streaming: afterwards the flag is true, the controller is Idle with no
\* current streaming entry id, the entry that was streaming is still in the
\* transcript with the content it had, and the next agent_message_delta makes a
\* new assistant entry instead of appending to the old one.
C22_TaskStartedResets ==
  /\ (Handled /\ LastType = "task_started") =>
       /\ Loading
       /\ streamController.state = "Idle"
       /\ currentStreamingMessageId = NoId
       /\ last.streamId # NoId => ContentOf(last.streamId) = last.content
  /\ (Handled /\ LastType = "agent_message_delta" /\ last.prior.by = "task_started") =>
       /\ last.streamId # last.prior.id
       /\ ContentOf(last.prior.id) = last.prior.content
       /\ last.streamId = NoId => StartedNewEntry

\* C23. Suppressed kinds have no effect: an event of kind
\* agent_reasoning_delta, agent_reasoning_raw_content_delta, mcp_tool_call_end,
\* patch_apply_begin, patch_apply_end, web_search_end,
\* exec_command_output_delta, token_count or background_event, or of a kind the
\* switch does not know, leaves every transcript and loading flag, the stream
\* state and the exec-tracking pointer as they were; only its key is added to
\* the deduplication set.
C23_SuppressedKinds ==
  [][(/\ last'.channel \in {"raw", "structured"}
      /\ ~last'.threw
      /\ last'.event.msg.type \in NoisyKinds) =>
       /\ UNCHANGED <<conversations, streamController, currentStreamingMessageId,
                      currentCommandMessageId, currentCommandInfo, uid, stopSignals,
                      sessionState>>
       /\ ~last'.dup => processedEventIds' = Append(processedEventIds,
                                                     EventKey(last'.event))]_vars

\* a suppressed event that arrives in a loading session with a stream open and a
\* command running
C23_Witness ==
  /\ Handled
  /\ LastType \in SuppressedKinds
  /\ Loading
  /\ currentStreamingMessageId # NoId
  /\ StreamContent # <<>>
  /\ currentCommandMessageId # NoId
  /\ Len(processedEventIds) = last.seen + 1

\* the entries of old are still there, in their places, followed by what was added
KeepsEntries(old, new) ==
  /\ Len(new) >= Len(old)
  /\ \A i \in DOMAIN old : new[i].id = old[i].id

IsPrefix(short, long) ==
  Len(short) <= Len(long) /\ SubSeq(long, 1, Len(short)) = short

\* this step is an event going through a listener
EventStep == last'.channel \in {"raw", "structured"}

\* what a step of event processing may do to the entries of conversation c
AppendOnlyUnderEvents(c) ==
  LET old == conversations[c].messages
      new == conversations'[c].messages
  IN /\ KeepsEntries(old, new)
     /\ \A i \in DOMAIN old :
          new[i] # old[i] =>
            /\ c = sessionId
            /\ \/ /\ old[i].id = currentStreamingMessageId
                  /\ last'.event.msg.type = "agent_message_delta"
                  /\ new[i] = [old[i] EXCEPT !.content = new[i].content]
                  /\ IsPrefix(old[i].content, new[i].content)
               \/ /\ old[i].id = currentCommandMessageId
                  /\ last'.event.msg.type = "exec_command_end"

\* C24 as claimed: the transcript is append-only under event processing, with
\* in-place changes only to the streaming entry and to the remembered exec
\* entry, and entries are removed only by truncateMessagesFrom or
\* deleteConversation.
C24_AppendOnlyAsClaimed ==
  [][\A c \in ConversationIds :
       /\ EventStep => AppendOnlyUnderEvents(c)
       /\ ~KeepsEntries(conversations[c].messages, conversations'[c].messages) =>
            last'.event.msg.type \in {"truncateMessagesFrom", "deleteConversation"}]_vars

\* C24. The transcript is append-only under event processing: no event removes
\* or reorders entries of a conversation, new entries are added at the end, and
\* an existing entry is changed in place only if it is the currently streaming
\* entry (a delta grows its content) or the exec entry the exec-tracking
\* pointer remembers (on exec_command_end).  Entries are removed only by the
\* store calls truncateMessagesFrom, deleteConversation and
\* selectHistoryConversation (which replaces a conversation by the one read
\* from history).
C24_AppendOnly ==
  [][\A c \in ConversationIds :
       /\ EventStep => AppendOnlyUnderEvents(c)
       /\ ~KeepsEntries(conversations[c].messages, conversations'[c].messages) =>
            /\ last'.channel = "store"
            /\ last'.event.msg.type \in {"truncateMessagesFrom", "deleteConversation",
                                         "selectHistoryConversation"}
            /\ last'.event.msg.conversationId = c]_vars

\* an exec_command_end has completed the remembered entry, which is not the
\* last one: a streaming entry that a later delta grew comes after it
C24_Witness ==
  /\ Handled
  /\ LastType = "exec_command_end"
  /\ last.commandId # NoId
  /\ Len(Transcript) = 2
  /\ Transcript[1].id = last.commandId
  /\ Transcript[1].content # <<"cwd: ">> \o Cwd
  /\ Transcript[2].id = currentStreamingMessageId

\* C25. truncateMessagesFrom(conversationId, fromMessageId) removes the entry
\* with that id and every entry after it and keeps the earlier entries as they
\* were and in order; when the conversation has no entry with the id, or is
\* not in the store, the conversations are left as they were; the other
\* conversations are never affected.
C25_TruncateMessagesFrom ==
  [][(last'.channel = "store" /\ last'.event.msg.type = "truncateMessagesFrom") =>
       LET c == last'.event.msg.conversationId
           m == last'.event.msg.fromMessageId
           old == conversations[c].messages
           new == conversations'[c].messages
       IN /\ \A d \in ConversationIds \ {c} : conversations'[d] = conversations[d]
          /\ conversations'[c] = [conversations[c] EXCEPT !.messages = new]
          /\ IF conversations[c].exists /\ \E i \in DOMAIN old : old[i].id = m
             THEN /\ IsPrefix(new, old)
                  /\ Len(new) < Len(old)
                  /\ old[Len(new) + 1].id = m
                  /\ \A i \in DOMAIN new : new[i].id # m
             ELSE conversations' = conversations]_vars

\* a transcript of three entries cut from its second entry: the first is left
C25_Witness ==
  /\ last.channel = "store"
  /\ LastType = "truncateMessagesFrom"
  /\ last.event.msg.conversationId = sessionId
  /\ last.len = 3
  /\ Len(Transcript) = 1
  /\ Transcript[1].id # last.event.msg.fromMessageId

\* activations recorded for the spec with this id
ActivationsOf(specId) ==
  {i \in DOMAIN steering.activations : steering.activations[i].spec_id = specId}

\* C26. max_activations limits how many times a steering spec can trigger: for
\* every spec with max_activations = N, whatever evaluateSpecs calls have been
\* made, the number of recorded activations of that spec is at most N, also
\* for a spec with several triggers and several actions.
C26_MaxActivations ==
  \A i \in DOMAIN steering.specs :
    steering.specs[i].max_activations # 0 =>
      Cardinality(ActivationsOf(steering.specs[i].id)) <= steering.specs[i].max_activations

\* C27. Stream bookkeeping stays consistent: in every reachable state the
\* current streaming entry id is non-null exactly when the stream controller is
\* Streaming, the controller's sink then being the entry with that id; and a
\* step clears the id exactly when it takes the controller from Streaming to
\* Idle.
C27_StreamBookkeeping ==
  /\ [](/\ currentStreamingMessageId # NoId <=> streamController.state = "Streaming"
        /\ streamController.sinkId = currentStreamingMessageId)
  /\ [][(currentStreamingMessageId # NoId /\ currentStreamingMessageId' = NoId)
          <=> (streamController.state = "Streaming" /\ streamController'.state = "Idle")]_vars

\* an error event has closed an open stream: both were set, both are cleared
C27_Witness ==
  /\ Handled
  /\ LastType = "error"
  /\ last.streamId # NoId
  /\ last.ctrl.state = "Streaming"
  /\ currentStreamingMessageId = NoId
  /\ streamController.state = "Idle"

\* C28. The deduplicator keys on (id, kind, session_id) only, never on the
\* payload: an event whose three values are those of a key still in the set is
\* dropped whatever it carries (conversations, stream state, exec tracking, the
\* ids handed out and the set itself stay as they were), and an event whose
\* three values are not in the set is processed and its key appended.
C28_KeyIgnoresPayload ==
  [][(EventStep /\ ~last'.threw) =>
       LET e == last'.event
           known == \E i \in DOMAIN processedEventIds :
                      /\ processedEventIds[i][1] = e.id
                      /\ processedEventIds[i][2] = e.msg.type
                      /\ processedEventIds[i][3] = e.session_id
       IN IF known
          THEN UNCHANGED <<conversations, streamController, currentStreamingMessageId,
                           currentCommandMessageId, currentCommandInfo, uid,
                           processedEventIds>>
          ELSE /\ Len(processedEventIds') = Len(processedEventIds) + 1
               /\ processedEventIds'[Len(processedEventIds')][1] = e.id]_vars

\* the only event processed so far was a delta "a"; a second fragment "b" with
\* its id is dropped, and the entry still reads "a"
C28_Witness ==
  /\ last.dup
  /\ LastType = "agent_message_delta"
  /\ last.event.msg.delta = <<"b">>
  /\ Len(processedEventIds) = 1
  /\ Len(Transcript) = 1
  /\ Transcript[1].content = <<"a">>

\* the kinds of the events processed so far, in order
KindsSoFar == [i \in DOMAIN processedEventIds |-> processedEventIds[i][2]]

\* indices of the command entries, and the one the latest exec_command_begin made
CommandEntries == {i \in DOMAIN Transcript : Transcript[i].messageType = "exec_command"}

NewestCommandEntry == CHOOSE i \in CommandEntries : \A j \in CommandEntries : j <= i

\* the entry is as exec_command_begin made it: the running glyph, the cwd line
AsBegun(entry) ==
  /\ entry.title[1] = GlyphRun
  /\ entry.content = <<"cwd: ">> \o Cwd

\* a begin has been processed with no exec_command_end or turn_aborted after it
BeginPending ==
  \E i \in DOMAIN KindsSoFar :
    /\ KindsSoFar[i] = "exec_command_begin"
    /\ \A j \in DOMAIN KindsSoFar : j > i => KindsSoFar[j] = "exec_command_begin"

\* C29. Exec tracking holds a single pointer: an exec_command_end changes only
\* the entry made by the most recent exec_command_begin, and only if no
\* exec_command_end (or abort) has been processed since that begin; otherwise
\* it changes nothing.  Hence after begin(A), begin(B), end, end the entry of B
\* is completed by the first end, the entry of A is as its begin made it, and
\* the second end was a no-op.
C29_SinglePointer ==
  /\ [](/\ currentCommandMessageId # NoId <=> BeginPending
        /\ currentCommandMessageId # NoId =>
             Transcript[NewestCommandEntry].id = currentCommandMessageId
        /\ KindsSoFar = <<"exec_command_begin", "exec_command_begin",
                          "exec_command_end", "exec_command_end">> =>
             /\ Len(Transcript) = 2
             /\ AsBegun(Transcript[1])
             /\ ~AsBegun(Transcript[2])
             /\ currentCommandMessageId = NoId)
  /\ [][(EventStep /\ ~last'.dup /\ last'.routed
           /\ last'.event.msg.type = "exec_command_end") =>
          IF BeginPending
          THEN /\ Len(Transcript') = Len(Transcript)
               /\ \A i \in DOMAIN Transcript :
                    i # NewestCommandEntry => Transcript'[i] = Transcript[i]
               /\ ~AsBegun(Transcript'[NewestCommandEntry])
               /\ currentCommandMessageId' = NoId
          ELSE UNCHANGED <<conversations, streamController, currentStreamingMessageId,
                           currentCommandMessageId, currentCommandInfo, uid>>]_vars

\* begin(A), begin(B), end, end: the second end found no pointer and A's entry
\* still shows the command as running
C29_Witness ==
  /\ KindsSoFar = <<"exec_command_begin", "exec_command_begin",
                    "exec_command_end", "exec_command_end">>
  /\ Handled
  /\ last.commandId = NoId
  /\ Transcript[1].title # Transcript[2].title
  /\ AsBegun(Transcript[1])

\* the id names a reminder of the map
NamesReminder(s, id) == id \in DOMAIN s.reminders /\ s.reminders[id] # Undefined

\* every id in activeReminders names a reminder that is not dismissed
ActiveAreLive ==
  \A i \in DOMAIN steering.activeReminders :
    /\ NamesReminder(steering, steering.activeReminders[i])
    /\ ~steering.reminders[steering.activeReminders[i]].dismissed

\* C30. Reminder lifecycle is safe for arbitrary ids: dismissReminder(id) takes
\* id out of activeReminders and marks the reminder with that id dismissed; for
\* an id that names no reminder it adds no entry to the reminders map; no call
\* of cleanupExpiredReminders ends with an exception, and getActiveReminders
\* returns reminders only; every id in activeReminders names an existing
\* reminder that is not dismissed.
C30_ReminderLifecycle ==
  /\ [](/\ ActiveAreLive
        /\ ~last.threw
        /\ \A i \in DOMAIN getActiveReminders(steering) :
             getActiveReminders(steering)[i] # Undefined)
  /\ [][(last'.channel = "steering" /\ last'.event.msg.type = "dismissReminder") =>
          LET id == last'.event.msg.reminderId IN
          /\ \A i \in DOMAIN steering'.activeReminders : steering'.activeReminders[i] # id
          /\ IF NamesReminder(steering, id)
             THEN steering'.reminders[id].dismissed
             ELSE DOMAIN steering'.reminders = DOMAIN steering.reminders]_vars

====
